---- MODULE Spec2Model ----
(***************************************************************************)
(* A model of the remote-command agent (agent/main.py) and of the region   *)
(* picker's rectangle arithmetic (agent/region_picker.py).                 *)
(*                                                                         *)
(* Text is a sequence of one-character strings.  Python's str operations   *)
(* (strip, lower, rfind, split, slicing) are operators that compute what   *)
(* the interpreter computes, with Python's 0-based indices.                *)
(*                                                                         *)
(* The module holds several specifications over one set of variables:      *)
(*   Spec         the agents polling one commands table: queries, claim,   *)
(*                dispatch and status reports of handle_command            *)
(*   FairSpec     Spec on claimable rows, with the agents kept running     *)
(*   SpecChat     one run of ide_chat_via_gui and its status report        *)
(*   SpecShell    one run of run_shell_command and its status report       *)
(*   SpecTrunc    _truncate_log applied to bounded texts and budgets       *)
(*   SpecExtract  _extract_last_ai_answer applied to bounded texts         *)
(*   SpecWindow   _score_window / _choose_best_window on the candidates    *)
(*   SpecClamp    Rect.clamp on bounded rectangles and screens             *)
(*   SpecDispatch the routing of handle_command on bounded command texts   *)
(*   SpecFocus    the focus steps of ide_chat_via_gui on every setting     *)
(*   SpecMain     main() with rows inserted while the agent runs and with  *)
(*                calls to the job store that can raise                    *)
(*   FairSpecShell SpecShell with run_shell_command kept running           *)
(*   SpecUpsert   _upsert_env_vars applied to bounded files and updates    *)
(*   SpecClip     one copy step of the bridge, clipboard poll by poll      *)
(*   SpecActivateOnce  _activate_window_once on every window layout        *)
(*   SpecRegion   _parse_region applied to bounded settings                *)
(*   SpecHandle   handle_command on payloads of every shape                *)
(*   SpecPoll     main() with rows inserted while the agent runs, with or  *)
(*                without AGENT_USER_ID; FairSpecPoll keeps it running     *)
(* Each specification leaves the other parts' variables at their idle      *)
(* values.  Calls to the job store succeed in all of them but SpecMain;    *)
(* in Spec and FairSpec every row is in the table when the agents start.   *)
(***************************************************************************)
EXTENDS Integers, Sequences, FiniteSets, TLC

VARIABLES
    \* configuration, read once from the environment (main.py:23-61) and by
    \* ide_chat_via_gui (main.py:377-380); never written afterwards
    LOG_MAX_CHARS,                \* main.py:27
    AGENT_USER_ID,                \* main.py:28, "" when unset
    POLL_MAX_BATCH,               \* main.py:30
    AI_ANSWER_MARKERS,            \* main.py:58, the comma-separated marker text
    IDE_SEND_RETRY_COUNT,         \* main.py:56
    IDE_CHAT_FOCUS_HOTKEY,        \* main.py:43, TRUE when set
    input_region,                 \* main.py:379, TRUE when _parse_region gave one
    IDE_INPUT_IMAGE,              \* main.py:46, TRUE when set
    input_xy,                     \* main.py:377, TRUE when _parse_xy gave one
    IDE_FOCUS_TRANSCRIPT_HOTKEY,  \* main.py:44, TRUE when set
    output_region,                \* main.py:380
    IDE_OUTPUT_IMAGE,             \* main.py:47
    output_xy,                    \* main.py:378
    \* a run of one pure function
    fn,                   \* which pure function the run applies
    arg,                  \* its input
    res,                  \* <<>> before the call, <<result>> after it
    \* a run of ide_chat_via_gui inside handle_command's default branch
    chPc,                 \* where the run stands
    attempt,              \* the loop variable of main.py:570
    answer,               \* main.py:567
    submits,              \* presses of Enter so far
    pastes,               \* ctrl+v so far
    copies,               \* copy steps (_copy_transcript_text) so far
    extractions,          \* calls of _extract_last_ai_answer so far
    firstSuccess,         \* the first extraction that met the criterion, 0 if none
    chResult,             \* <<>> or <<the returned log>>, or <<"exc", message>>
    activations,          \* passes of the loop of main.py:465 that raised, while the
                          \* loop runs and after its RuntimeError; 0 once it returned
    clip,                 \* one copy step (_copy_transcript_text) followed poll by poll:
                          \* the clipboard, the polls left and what they read
    chStatus,             \* the job's stored status
    chLog,                \* the job's stored response_log
    \* a run of run_shell_command inside handle_command's /sh branch
    shPc,                 \* where the run stands
    proc,                 \* the child process: <<"none">>, <<"running">>, <<"exited", code>>
    orphans,              \* TRUE while processes the killed shell had started hold its stdout
    buffer,               \* main.py:199, the lines read so far
    exit_code,            \* main.py:226
    shResult,             \* <<>>, <<the returned log>> or <<"exc", message>>
    shStatus,             \* the job's stored status
    shLog,                \* the job's stored response_log
    flush,                \* flush_partial: the time since last_flush (main.py:200, 210),
                          \* capped at the flush interval, and the partial writes so far
    \* the commands table and the agents that poll it
    rows,                 \* job -> the columns the agent only reads
    store,                \* job -> [status, response_log], the columns it writes
    wpc,                  \* agent -> where its main() stands
    batch,                \* agent -> the rows of its last query not yet handled
    cur,                  \* agent -> the job its handle_command has claimed, 0 if none
    claimTried,           \* job -> the agents that issued the claim update for it
    claimedBy,            \* job -> the agents whose claim returned a row
    ran,                  \* job -> the agents that started a handler for it
    writers,              \* job -> the agents that wrote to its row
    reports,              \* job -> the terminal statuses reported by update_command
    phase,                \* agent -> the part of main() it is in (main.py:1181-1184);
                          \* followed only where calls to the job store can fail
    lost,                 \* the jobs whose error report (main.py:1122) raised
    arrived               \* the number of rows inserted so far, in created_at order

configVars == <<LOG_MAX_CHARS, AGENT_USER_ID, POLL_MAX_BATCH, AI_ANSWER_MARKERS, IDE_SEND_RETRY_COUNT,
                IDE_CHAT_FOCUS_HOTKEY, input_region, IDE_INPUT_IMAGE, input_xy,
                IDE_FOCUS_TRANSCRIPT_HOTKEY, output_region, IDE_OUTPUT_IMAGE, output_xy>>
pureVars == <<fn, arg, res>>
chatVars == <<chPc, attempt, answer, submits, pastes, copies, extractions,
              firstSuccess, chResult, chStatus, chLog, clip, activations>>
shellVars == <<shPc, proc, orphans, buffer, exit_code, shResult, shStatus, shLog, flush>>
queueVars == <<rows, store, wpc, batch, cur, claimTried, claimedBy, ran, writers, reports, phase, lost, arrived>>
vars == <<configVars, pureVars, chatVars, shellVars, queueVars>>

\* ------------------------------------------------------------------ bounds
MaxLogLen == 4      \* longest log text given to _truncate_log
MaxTextLen == 4     \* longest transcript given to _extract_last_ai_answer
MaxWindows == 2     \* most candidate windows given to _choose_best_window
MaxRetry == 2       \* largest IDE_SEND_RETRY_COUNT
MaxLines == 2       \* most output lines of a shell command
MaxPolls == 2       \* clipboard polls before the deadline of a copy step
MaxClipWrites == 2  \* clipboard writes by other programs during a copy step
MaxEnvLen == 4      \* characters of an environment file
NumWorkers == 2     \* agent processes polling the same table
NumMainAgents == 1  \* agent processes started where store calls can fail
NumJobs == 2        \* rows of the commands table

\* ------------------------------------------- the idle values of each part
ClipOff ==
    [board |-> "", pc |-> "idle", polls |-> 0, seen |-> <<>>, before |-> "none",
     again |-> FALSE, writes |-> 0, out |-> <<>>, how |-> "none"]

ChatIdle ==
    /\ clip = ClipOff
    /\ activations = 0
    /\ chPc = "idle" /\ attempt = 0 /\ answer = <<>>
    /\ submits = 0 /\ pastes = 0 /\ copies = 0 /\ extractions = 0
    /\ firstSuccess = 0 /\ chResult = <<>> /\ chStatus = "none" /\ chLog = <<>>

FocusUnset ==
    /\ IDE_CHAT_FOCUS_HOTKEY = FALSE /\ input_region = FALSE
    /\ IDE_INPUT_IMAGE = FALSE /\ input_xy = FALSE
    /\ IDE_FOCUS_TRANSCRIPT_HOTKEY = FALSE /\ output_region = FALSE
    /\ IDE_OUTPUT_IMAGE = FALSE /\ output_xy = FALSE

QueueIdle ==
    /\ rows = <<>> /\ store = <<>> /\ wpc = <<>> /\ batch = <<>> /\ cur = <<>>
    /\ claimTried = <<>> /\ claimedBy = <<>> /\ ran = <<>> /\ writers = <<>> /\ reports = <<>>
    /\ phase = <<>> /\ lost = {} /\ arrived = 0

PureIdle == fn = "none" /\ arg = <<>> /\ res = <<>>

ShellIdle ==
    /\ shPc = "idle" /\ proc = <<"none">> /\ orphans = FALSE /\ buffer = <<>> /\ exit_code = 0
    /\ shResult = <<>> /\ shStatus = "none" /\ shLog = <<>>
    /\ flush = [since |-> 0, count |-> 0]

\* ------------------------------------------------------- Python str helpers
Max(a, b) == IF a >= b THEN a ELSE b
Min(a, b) == IF a <= b THEN a ELSE b

SeqsUpTo(S, n) == UNION {[1..k -> S] : k \in 0..n}

\* str.isspace for the characters of the model's alphabets
IsSpace(c) == c \in {" ", "\n", "\t", "\r", "\f"}

\* s[k:] for k >= 0
PySliceFrom(s, k) == SubSeq(s, Min(k, Len(s)) + 1, Len(s))

\* s[-n:] as Python evaluates it: -0 is 0, so s[-0:] is all of s; a negative n
\* makes the start index positive
PySliceLast(s, n) ==
    IF n > 0 THEN SubSeq(s, Max(1, Len(s) - n + 1), Len(s))
    ELSE PySliceFrom(s, 0 - n)

RECURSIVE lstrip(_)
lstrip(s) == IF s # <<>> /\ IsSpace(Head(s)) THEN lstrip(Tail(s)) ELSE s

RECURSIVE rstrip(_)
rstrip(s) ==
    IF s # <<>> /\ IsSpace(s[Len(s)]) THEN rstrip(SubSeq(s, 1, Len(s) - 1)) ELSE s

strip(s) == rstrip(lstrip(s))

\* the characters of a string literal, one per element
Chars(s) == [i \in 1..Len(s) |-> SubSeq(s, i, i)]

\* the capital letters of the model's alphabets and their lower-case forms
UPPER == Chars("AGHIMOSVW")
LOWER == Chars("aghimosvw")

\* str.lower of one character.  U+0130 (capital I with dot above) is the one
\* code point whose lower-casing is two code points: "i" and U+0307.
LowerChar(c) ==
    IF c = "U0130" THEN <<"i", "U0307">>
    ELSE IF \E i \in 1..Len(UPPER) : UPPER[i] = c
         THEN <<LOWER[CHOOSE i \in 1..Len(UPPER) : UPPER[i] = c]>>
         ELSE <<c>>

RECURSIVE lower(_)
lower(s) == IF s = <<>> THEN <<>> ELSE LowerChar(Head(s)) \o lower(Tail(s))

\* hay.rfind(needle): the greatest 0-based start index, -1 when absent
rfind(hay, needle) ==
    LET starts == {i \in 0..(Len(hay) - Len(needle)) :
                      SubSeq(hay, i + 1, i + Len(needle)) = needle}
    IN IF starts = {} THEN 0 - 1
       ELSE CHOOSE i \in starts : \A j \in starts : j <= i

\* s.split(sep) for a one-character separator: a sequence of texts
RECURSIVE split(_, _)
split(s, sep) ==
    LET cuts == {i \in 1..Len(s) : s[i] = sep}
    IN IF cuts = {} THEN <<s>>
       ELSE LET i == CHOOSE c \in cuts : \A d \in cuts : c <= d
            IN <<SubSeq(s, 1, i - 1)>> \o split(SubSeq(s, i + 1, Len(s)), sep)

\* sep.join(parts)
RECURSIVE join(_, _)
join(parts, sep) ==
    IF parts = <<>> THEN <<>>
    ELSE IF Len(parts) = 1 THEN parts[1]
    ELSE parts[1] \o <<sep>> \o join(Tail(parts), sep)

\* s.replace("\r\n", "\n")
RECURSIVE replace_crlf(_)
replace_crlf(s) ==
    IF s = <<>> THEN <<>>
    ELSE IF Len(s) >= 2 /\ s[1] = "\r" /\ s[2] = "\n"
         THEN <<"\n">> \o replace_crlf(SubSeq(s, 3, Len(s)))
         ELSE <<Head(s)>> \o replace_crlf(Tail(s))

\* ------------------------------------------------------------ _truncate_log
TRUNCATION_MARKER ==
    <<"[", "l", "o", "g", " ", "t", "r", "u", "n", "c", "a", "t", "e", "d", "]", "\n">>

_truncate_log(log_text) ==
    IF Len(log_text) <= LOG_MAX_CHARS THEN log_text
    ELSE TRUNCATION_MARKER \o PySliceLast(log_text, LOG_MAX_CHARS)

\* -------------------------------------------------- _extract_last_ai_answer
\* markers = [m.strip() for m in AI_ANSWER_MARKERS.split(",") if m.strip()]
RECURSIVE strip_nonblank(_)
strip_nonblank(parts) ==
    IF parts = <<>> THEN <<>>
    ELSE (IF strip(Head(parts)) # <<>> THEN <<strip(Head(parts))>> ELSE <<>>)
         \o strip_nonblank(Tail(parts))

markers == strip_nonblank(split(strip(AI_ANSWER_MARKERS), ","))

\* The loop of lines 339-345 over markers[1..n]: <<best_idx, best_marker>>.
\* A later marker replaces the best only with a strictly greater index.
RECURSIVE best_marker_of(_, _, _)
best_marker_of(lowered, ms, n) ==
    IF n = 0 THEN <<0 - 1, <<>>>>
    ELSE LET prev == best_marker_of(lowered, ms, n - 1)
             idx == rfind(lowered, lower(ms[n]))
         IN IF idx > prev[1] THEN <<idx, ms[n]>> ELSE prev

TAIL_LINES == 120

_extract_last_ai_answer(full_text) ==
    LET text == strip(replace_crlf(full_text))
        lowered == lower(text)
        best == best_marker_of(lowered, markers, Len(markers))
        best_idx == best[1]
        best_marker == best[2]
        lines == split(text, "\n")
    IN IF text = <<>> THEN <<>>
       ELSE IF best_idx >= 0
            THEN strip(lstrip(PySliceFrom(text, best_idx + Len(best_marker))))
            ELSE strip(join(PySliceLast(lines, TAIL_LINES), "\n"))

\* ------------------------------------------- _score_window, _choose_best_window
ACTIVE_WEIGHT == 1000000
NOT_MINIMIZED_WEIGHT == 100000

_score_window(w) ==
    (IF w.isActive THEN ACTIVE_WEIGHT ELSE 0)
    + (IF ~w.isMinimized THEN NOT_MINIMIZED_WEIGHT ELSE 0)
    + w.width * w.height

\* max(candidates, key=_score_window): the first candidate of maximal score
_choose_best_window(candidates) ==
    LET best == CHOOSE i \in 1..Len(candidates) :
                    /\ \A j \in 1..Len(candidates) :
                           _score_window(candidates[j]) <= _score_window(candidates[i])
                    /\ \A j \in 1..(i - 1) :
                           _score_window(candidates[j]) < _score_window(candidates[i])
    IN candidates[best]

\* ------------------------------------------------------------------ Rect.clamp
MIN_SIZE == 40

clamp(self, screen_w, screen_h) ==
    LET w == Max(MIN_SIZE, self.width)
        h == Max(MIN_SIZE, self.height)
        l == Max(0, Min(self.left, screen_w - w))
        t == Max(0, Min(self.top, screen_h - h))
    IN [left |-> l, top |-> t, width |-> w, height |-> h]

\* ================================================ the job queue and its agents
Workers == 1..NumWorkers
Jobs == 1..NumJobs      \* a job's number is its rank in created_at order

\* The columns of a row as handle_command reads them (main.py:958-962): whether
\* it has an id, the owner ("" when it has none), whether command_text is
\* blank after trimming, and the status.  A row a query returned has an id
\* and the status pending.
RowKinds == [id : {TRUE}, user_id : {"u1"}, blank : BOOLEAN, status : {"pending"}]

\* every row handle_command can be handed
PayloadKinds ==
    [id : BOOLEAN, user_id : {"", "u1", "u2"}, blank : BOOLEAN,
     status : {"pending", "processing", "completed"}]

Terminal == {"completed", "error"}

\* the branches of handle_command's dispatch (main.py:993-1117), in its order
CommandKinds ==
    {"/pos", "/ide learn input", "/ide learn output", "/ide status",
     "/ide calibrate regions", "/ide calibrate input", "/ide calibrate output",
     "/ide debug screen", "/ide debug locate", "/capture", "/open",
     "whoami", "/sh", "chat"}

\* the branches that call run_shell_command (main.py:1091-1103)
ShellKinds == {"whoami", "/sh"}

\* where the dispatch leaves the agent: inside run_shell_command, or at the
\* end of a branch that returned, or in the except clause (main.py:992-1120)
HandlerSteps ==
    {IF kind \in ShellKinds THEN "shell" ELSE outcome :
        kind \in CommandKinds, outcome \in {"returned", "raised"}}

BOOTSTRAP_LIMIT == 50

\* select ... eq("status", "pending").order("created_at").limit(n), with the
\* owner filter when AGENT_USER_ID is set (main.py:1126-1137, 1160-1171)
RECURSIVE pending_from(_)
pending_from(j) ==
    IF j > arrived THEN <<>>
    ELSE (IF /\ store[j].status = "pending"
             /\ (AGENT_USER_ID = "" \/ rows[j].user_id = AGENT_USER_ID)
          THEN <<j>> ELSE <<>>) \o pending_from(j + 1)

pending_query(limit) == SubSeq(pending_from(1), 1, Min(limit, Len(pending_from(1))))

\* the status guard of the claim, .eq("status", "pending") (main.py:983)
claim_guard_mut_C1(j) == TRUE
claim_guard_mut_C33(j) == store[j].status # "processing"
claim_guard(j) == store[j].status = "pending"

InitTable ==
    /\ LOG_MAX_CHARS = 20000
    /\ AGENT_USER_ID = ""
    /\ POLL_MAX_BATCH \in 1..NumJobs
    /\ AI_ANSWER_MARKERS = <<"A", ":">>
    /\ IDE_SEND_RETRY_COUNT = 1
    /\ FocusUnset
    /\ PureIdle /\ ChatIdle /\ ShellIdle
    /\ rows \in [Jobs -> RowKinds]
    /\ store = [j \in Jobs |-> [status |-> "pending", response_log |-> ""]]
    /\ wpc = [w \in Workers |-> "boot"]
    /\ batch = [w \in Workers |-> <<>>]
    /\ cur = [w \in Workers |-> 0]
    /\ claimTried = [j \in Jobs |-> {}]
    /\ claimedBy = [j \in Jobs |-> {}]
    /\ ran = [j \in Jobs |-> {}]
    /\ writers = [j \in Jobs |-> {}]
    /\ reports = [j \in Jobs |-> <<>>]
    /\ phase = [w \in Workers |-> "bootstrap"]
    /\ lost = {}

\* every row is in the table before the agents start
InitQueue == InitTable /\ arrived = NumJobs

QueueOthers == <<configVars, pureVars, chatVars, shellVars, phase, lost, arrived>>

\* bootstrap_pending_commands' query (main.py:1126-1139)
Bootstrap(w) ==
    /\ wpc[w] = "boot"
    /\ batch' = [batch EXCEPT ![w] = pending_query(BOOTSTRAP_LIMIT)]
    /\ wpc' = [wpc EXCEPT ![w] = "rows"]
    /\ UNCHANGED <<QueueOthers, rows, store, cur, claimTried, claimedBy, ran, writers, reports>>

PollQuery_mut_C15(w) ==
    /\ wpc[w] = "rows"
    /\ batch' = [batch EXCEPT ![w] = pending_query(POLL_MAX_BATCH)]
    /\ UNCHANGED <<QueueOthers, rows, store, wpc, cur, claimTried, claimedBy, ran, writers, reports>>

\* poll_pending_commands_forever's query (main.py:1160-1172), once the rows of
\* the previous query are all handled
PollQuery(w) ==
    /\ wpc[w] = "rows" /\ batch[w] = <<>>
    /\ batch' = [batch EXCEPT ![w] = pending_query(POLL_MAX_BATCH)]
    /\ UNCHANGED <<QueueOthers, rows, store, wpc, cur, claimTried, claimedBy, ran, writers, reports>>

HandleRow_mut_C32(w) ==
    /\ wpc[w] = "rows" /\ batch[w] # <<>>
    /\ LET j == Head(batch[w])
           row == rows[j]
       IN /\ batch' = [batch EXCEPT ![w] = Tail(batch[w])]
          /\ IF \/ ~row.id \/ row.user_id = ""
                \/ (AGENT_USER_ID # "" /\ row.user_id # AGENT_USER_ID)
                \/ row.status # "pending"
             THEN UNCHANGED <<store, wpc, cur, claimTried, claimedBy, writers, reports>>
             ELSE IF claim_guard(j)
             THEN /\ store' = [store EXCEPT ![j] =
                                  [status |-> "processing", response_log |-> "Command received"]]
                  /\ claimTried' = [claimTried EXCEPT ![j] = @ \cup {w}]
                  /\ claimedBy' = [claimedBy EXCEPT ![j] = @ \cup {w}]
                  /\ writers' = [writers EXCEPT ![j] = @ \cup {w}]
                  /\ cur' = [cur EXCEPT ![w] = j]
                  /\ wpc' = [wpc EXCEPT ![w] = "handler"]
                  /\ UNCHANGED reports
             ELSE /\ claimTried' = [claimTried EXCEPT ![j] = @ \cup {w}]
                  /\ UNCHANGED <<store, wpc, cur, claimedBy, writers, reports>>
    /\ UNCHANGED <<QueueOthers, rows, ran>>

HandleRow_mut_C34(w) ==
    /\ wpc[w] = "rows" /\ batch[w] # <<>>
    /\ LET j == Head(batch[w])
           row == rows[j]
       IN /\ batch' = [batch EXCEPT ![w] = Tail(batch[w])]
          /\ IF \/ ~row.id \/ row.user_id = ""
                \/ (AGENT_USER_ID # "" /\ row.user_id # AGENT_USER_ID)
             THEN UNCHANGED <<store, wpc, cur, claimTried, claimedBy, writers, reports>>
             ELSE IF rows[j].blank
             THEN /\ store' = [store EXCEPT ![j] =
                                  [status |-> "error", response_log |-> "Empty command_text"]]
                  /\ writers' = [writers EXCEPT ![j] = @ \cup {w}]
                  /\ reports' = [reports EXCEPT ![j] = Append(@, "error")]
                  /\ UNCHANGED <<wpc, cur, claimTried, claimedBy>>
             ELSE IF claim_guard(j)
             THEN /\ store' = [store EXCEPT ![j] =
                                  [status |-> "processing", response_log |-> "Command received"]]
                  /\ claimTried' = [claimTried EXCEPT ![j] = @ \cup {w}]
                  /\ claimedBy' = [claimedBy EXCEPT ![j] = @ \cup {w}]
                  /\ writers' = [writers EXCEPT ![j] = @ \cup {w}]
                  /\ cur' = [cur EXCEPT ![w] = j]
                  /\ wpc' = [wpc EXCEPT ![w] = "handler"]
                  /\ UNCHANGED reports
             ELSE /\ claimTried' = [claimTried EXCEPT ![j] = @ \cup {w}]
                  /\ UNCHANGED <<store, wpc, cur, claimedBy, writers, reports>>
    /\ UNCHANGED <<QueueOthers, rows, ran>>

\* handle_command up to the claim (main.py:957-988) for the next row of the
\* batch.  The row is the snapshot the agent was handed.
HandleRow(w) ==
    /\ wpc[w] = "rows" /\ batch[w] # <<>>
    /\ LET j == Head(batch[w])
           row == rows[j]
       IN /\ batch' = [batch EXCEPT ![w] = Tail(batch[w])]
          /\ IF \/ ~row.id \/ row.user_id = ""
                \/ (AGENT_USER_ID # "" /\ row.user_id # AGENT_USER_ID)
                \/ row.status # "pending"
             THEN UNCHANGED <<store, wpc, cur, claimTried, claimedBy, writers, reports>>
             ELSE IF rows[j].blank
             THEN /\ store' = [store EXCEPT ![j] =
                                  [status |-> "error", response_log |-> "Empty command_text"]]
                  /\ writers' = [writers EXCEPT ![j] = @ \cup {w}]
                  /\ reports' = [reports EXCEPT ![j] = Append(@, "error")]
                  /\ UNCHANGED <<wpc, cur, claimTried, claimedBy>>
             ELSE IF claim_guard(j)
             THEN /\ store' = [store EXCEPT ![j] =
                                  [status |-> "processing", response_log |-> "Command received"]]
                  /\ claimTried' = [claimTried EXCEPT ![j] = @ \cup {w}]
                  /\ claimedBy' = [claimedBy EXCEPT ![j] = @ \cup {w}]
                  /\ writers' = [writers EXCEPT ![j] = @ \cup {w}]
                  /\ cur' = [cur EXCEPT ![w] = j]
                  /\ wpc' = [wpc EXCEPT ![w] = "handler"]
                  /\ UNCHANGED reports
             ELSE /\ claimTried' = [claimTried EXCEPT ![j] = @ \cup {w}]
                  /\ UNCHANGED <<store, wpc, cur, claimedBy, writers, reports>>
    /\ UNCHANGED <<QueueOthers, rows, ran>>

\* The dispatch of main.py:992-1117.  A handler other than the shell's touches
\* no row until it returns or raises, so it is one step.
RunHandler(w) ==
    /\ wpc[w] = "handler"
    /\ \E step \in HandlerSteps : wpc' = [wpc EXCEPT ![w] = step]
    /\ ran' = [ran EXCEPT ![cur[w]] = @ \cup {w}]
    /\ UNCHANGED <<QueueOthers, rows, store, batch, cur, claimTried, claimedBy, writers, reports>>

\* flush_partial inside run_shell_command (main.py:202-210, 222-224)
ShellFlush(w) ==
    /\ wpc[w] = "shell"
    /\ store' = [store EXCEPT ![cur[w]] =
                    [status |-> "processing", response_log |-> "partial"]]
    /\ writers' = [writers EXCEPT ![cur[w]] = @ \cup {w}]
    /\ UNCHANGED <<QueueOthers, rows, wpc, batch, cur, claimTried, claimedBy, ran, reports>>

\* run_shell_command's end (main.py:226-234): it returns, or raises for a
\* non-zero exit code
ShellExit(w) ==
    /\ wpc[w] = "shell"
    /\ \E outcome \in {"returned", "raised"} : wpc' = [wpc EXCEPT ![w] = outcome]
    /\ UNCHANGED <<QueueOthers, rows, store, batch, cur, claimTried, claimedBy, ran,
                   writers, reports>>

\* what handle_command does once it has reported: it returns to the loop
\* over the batch
BackToRows(w) ==
    /\ wpc' = [wpc EXCEPT ![w] = "rows"]
    /\ cur' = [cur EXCEPT ![w] = 0]

ReportCompleted_mut_C3(w) ==
    /\ wpc[w] = "returned"
    /\ store' = [store EXCEPT ![cur[w]] = [status |-> "completed", response_log |-> "result"]]
    /\ writers' = [writers EXCEPT ![cur[w]] = @ \cup {w}]
    /\ reports' = [reports EXCEPT ![cur[w]] = Append(@, "completed")]
    /\ wpc' = [wpc EXCEPT ![w] = "raised"]
    /\ UNCHANGED <<QueueOthers, rows, batch, cur, claimTried, claimedBy, ran>>

\* update_command(command_id, "completed", ...) closing each branch
\* (main.py:997, 1002, 1018, 1033, 1038, 1043, 1048, 1053, 1064, 1074, 1087,
\* 1093, 1102, 1118)
ReportCompleted(w) ==
    /\ wpc[w] = "returned"
    /\ store' = [store EXCEPT ![cur[w]] = [status |-> "completed", response_log |-> "result"]]
    /\ writers' = [writers EXCEPT ![cur[w]] = @ \cup {w}]
    /\ reports' = [reports EXCEPT ![cur[w]] = Append(@, "completed")]
    /\ BackToRows(w)
    /\ UNCHANGED <<QueueOthers, rows, batch, claimTried, claimedBy, ran>>

\* the except clause (main.py:1120-1122)
ReportError_mut_C2(w) ==
    /\ wpc[w] = "raised"
    /\ BackToRows(w)
    /\ UNCHANGED <<QueueOthers, rows, store, batch, claimTried, claimedBy, ran,
                   writers, reports>>

ReportError(w) ==
    /\ wpc[w] = "raised"
    /\ store' = [store EXCEPT ![cur[w]] = [status |-> "error", response_log |-> "exc"]]
    /\ writers' = [writers EXCEPT ![cur[w]] = @ \cup {w}]
    /\ reports' = [reports EXCEPT ![cur[w]] = Append(@, "error")]
    /\ BackToRows(w)
    /\ UNCHANGED <<QueueOthers, rows, batch, claimTried, claimedBy, ran>>

WorkerNext(w) ==
    \/ Bootstrap(w)
    \/ PollQuery(w)
    \/ HandleRow(w)
    \/ RunHandler(w)
    \/ ShellFlush(w)
    \/ ShellExit(w)
    \/ ReportCompleted(w)
    \/ ReportError(w)

Next == \E w \in Workers : WorkerNext(w)

Spec == InitQueue /\ [][Next]_vars

\* Each agent is a sequential program that keeps running, and a shell command
\* ends: by itself, or killed by the watchdog at COMMAND_TIMEOUT_SEC
\* (main.py:212-216).  No fairness is asked of flush_partial.
AgentRuns(w) ==
    \/ Bootstrap(w)
    \/ PollQuery(w)
    \/ HandleRow(w)
    \/ RunHandler(w)
    \/ ShellExit(w)
    \/ ReportCompleted(w)
    \/ ReportError(w)

\* The rows a claim can be made on: handle_command claims no row whose
\* command_text is blank (main.py:974-976).
InitClaimable ==
    /\ InitQueue
    /\ POLL_MAX_BATCH = 1
    /\ \A j \in Jobs : ~rows[j].blank

FairSpec == InitClaimable /\ [][Next]_vars /\ \A w \in Workers : WF_vars(AgentRuns(w))

\* ------------------------------------------ handle_command on any payload
\* Both agents are handed the first row, which is any payload over any stored
\* status; the first agent is then handed the second row, which is as a query
\* returns it.  No query is made.
InitHandle ==
    /\ LOG_MAX_CHARS = 20000
    /\ AGENT_USER_ID \in {"", "u1"}
    /\ POLL_MAX_BATCH = 1
    /\ AI_ANSWER_MARKERS = <<"A", ":">>
    /\ IDE_SEND_RETRY_COUNT = 1
    /\ FocusUnset
    /\ PureIdle /\ ChatIdle /\ ShellIdle
    /\ rows \in [Jobs -> PayloadKinds]
    /\ \A j \in Jobs \ {1} : rows[j] \in RowKinds
    /\ \E s \in {"pending", "processing", "completed"} :
          store = [j \in Jobs |->
                      [status |-> IF j = 1 THEN s ELSE "pending", response_log |-> ""]]
    /\ wpc = [w \in Workers |-> "rows"]
    /\ batch = [w \in Workers |-> IF w = 1 THEN <<1, 2>> ELSE <<1>>]
    /\ cur = [w \in Workers |-> 0]
    /\ claimTried = [j \in Jobs |-> {}]
    /\ claimedBy = [j \in Jobs |-> {}]
    /\ ran = [j \in Jobs |-> {}]
    /\ writers = [j \in Jobs |-> {}]
    /\ reports = [j \in Jobs |-> <<>>]
    /\ phase = [w \in Workers |-> "polling"]
    /\ lost = {}
    /\ arrived = NumJobs

HandleNext(w) ==
    \/ HandleRow(w)
    \/ RunHandler(w)
    \/ ShellFlush(w)
    \/ ShellExit(w)
    \/ ReportCompleted(w)
    \/ ReportError(w)

NextHandle == \E w \in Workers : HandleNext(w)

SpecHandle == InitHandle /\ [][NextHandle]_vars

\* ------------------------------------------- main() with a failing job store
\* The same agents, with calls to the job store that can raise.
Others == <<configVars, pureVars, chatVars, shellVars, lost, arrived>>

\* A row is inserted into the table the queries read (main.py:1127, 1161),
\* with status pending and a created_at later than those of the rows before.
Submit ==
    /\ arrived < NumJobs
    /\ arrived' = arrived + 1
    /\ UNCHANGED <<configVars, pureVars, chatVars, shellVars, phase, lost, rows, store, wpc, batch,
                   cur, claimTried, claimedBy, ran, writers, reports>>

\* main.py:1182-1184: bootstrap_pending_commands has returned and
\* poll_pending_commands_forever begins
EnterPollLoop(w) ==
    /\ phase[w] = "bootstrap" /\ wpc[w] = "rows" /\ batch[w] = <<>>
    /\ phase' = [phase EXCEPT ![w] = "polling"]
    /\ UNCHANGED <<Others, rows, store, wpc, batch, cur, claimTried, claimedBy, ran, writers,
                   reports>>

MainPollQuery(w) == phase[w] = "polling" /\ PollQuery(w)

\* An exception leaves handle_command.  The for loop of
\* bootstrap_pending_commands (main.py:1142-1143) has no handler: it leaves
\* main() and the process ends.  In poll_pending_commands_forever it is caught
\* by the except of main.py:1175-1176: the rest of the batch is dropped and
\* the loop goes on.
Escape(w) ==
    /\ batch' = [batch EXCEPT ![w] = <<>>]
    /\ cur' = [cur EXCEPT ![w] = 0]
    /\ IF phase[w] = "bootstrap"
       THEN /\ phase' = [phase EXCEPT ![w] = "terminated"]
            /\ wpc' = [wpc EXCEPT ![w] = "dead"]
       ELSE /\ wpc' = [wpc EXCEPT ![w] = "rows"]
            /\ UNCHANGED phase

\* the store call of main.py:975 or of main.py:979-985 raises
ClaimFails(w) ==
    /\ wpc[w] = "rows" /\ batch[w] # <<>>
    /\ rows[Head(batch[w])].user_id # ""
    /\ AGENT_USER_ID = "" \/ rows[Head(batch[w])].user_id = AGENT_USER_ID
    /\ Escape(w)
    /\ UNCHANGED <<Others, rows, store, claimTried, claimedBy, ran, writers, reports>>

\* update_command inside flush_partial raises (main.py:209), inside the try
FlushFails(w) ==
    /\ wpc[w] = "shell"
    /\ wpc' = [wpc EXCEPT ![w] = "raised"]
    /\ UNCHANGED <<Others, rows, store, batch, cur, claimTried, claimedBy, ran, writers,
                   reports, phase>>

\* update_command(command_id, "completed", ...) raises, inside the try
ReportCompletedFails(w) ==
    /\ wpc[w] = "returned"
    /\ wpc' = [wpc EXCEPT ![w] = "raised"]
    /\ UNCHANGED <<Others, rows, store, batch, cur, claimTried, claimedBy, ran, writers,
                   reports, phase>>

\* update_command(command_id, "error", ...) raises in the except clause
\* (main.py:1122)
ReportErrorFails(w) ==
    /\ wpc[w] = "raised"
    /\ lost' = lost \cup {cur[w]}
    /\ Escape(w)
    /\ UNCHANGED <<configVars, pureVars, chatVars, shellVars, arrived, rows, store, claimTried,
                   claimedBy, ran, writers, reports>>

MainNext(w) ==
    \/ Bootstrap(w)
    \/ EnterPollLoop(w)
    \/ MainPollQuery(w)
    \/ HandleRow(w)
    \/ ClaimFails(w)
    \/ RunHandler(w)
    \/ ShellFlush(w)
    \/ FlushFails(w)
    \/ ShellExit(w)
    \/ ReportCompleted(w)
    \/ ReportCompletedFails(w)
    \/ ReportError(w)
    \/ ReportErrorFails(w)

\* the agents that are started, and a table whose rows are inserted while
\* they run
MainAgents == 1..NumMainAgents

InitMain == InitTable /\ arrived = 0

NextMain == Submit \/ \E w \in MainAgents : MainNext(w)

SpecMain == InitMain /\ [][NextMain]_vars

\* ------------------------------------------- main() with rows of no owner
\* The table also holds rows without owner, which a query with no owner
\* filter returns (main.py:1136-1137, 1168-1169) and handle_command skips
\* (main.py:964-966).  Calls to the job store succeed.
InitPoll ==
    /\ LOG_MAX_CHARS = 20000
    /\ AGENT_USER_ID \in {"", "u1"}
    /\ POLL_MAX_BATCH \in 1..NumJobs
    /\ AI_ANSWER_MARKERS = <<"A", ":">>
    /\ IDE_SEND_RETRY_COUNT = 1
    /\ FocusUnset
    /\ PureIdle /\ ChatIdle /\ ShellIdle
    /\ rows \in [Jobs -> [id : {TRUE}, user_id : {"", "u1"}, blank : BOOLEAN,
                          status : {"pending"}]]
    /\ store = [j \in Jobs |-> [status |-> "pending", response_log |-> ""]]
    /\ wpc = [w \in Workers |-> "boot"]
    /\ batch = [w \in Workers |-> <<>>]
    /\ cur = [w \in Workers |-> 0]
    /\ claimTried = [j \in Jobs |-> {}]
    /\ claimedBy = [j \in Jobs |-> {}]
    /\ ran = [j \in Jobs |-> {}]
    /\ writers = [j \in Jobs |-> {}]
    /\ reports = [j \in Jobs |-> <<>>]
    /\ phase = [w \in Workers |-> "bootstrap"]
    /\ lost = {}
    /\ arrived = 0

\* the steps of main() that the agent takes by itself
PollAgentRuns(w) ==
    \/ Bootstrap(w)
    \/ EnterPollLoop(w)
    \/ MainPollQuery(w)
    \/ HandleRow(w)
    \/ RunHandler(w)
    \/ ShellExit(w)
    \/ ReportCompleted(w)
    \/ ReportError(w)

NextPoll == Submit \/ \E w \in MainAgents : (PollAgentRuns(w) \/ ShellFlush(w))

SpecPoll == InitPoll /\ [][NextPoll]_vars

\* the agent keeps running and a shell command ends
FairSpecPoll == SpecPoll /\ \A w \in MainAgents : WF_vars(PollAgentRuns(w))

\* ============================================================ ide_chat_via_gui
PLACEHOLDER ==
    <<"(", "n", "o", " ", "a", "n", "s", "w", "e", "r", " ",
      "e", "x", "t", "r", "a", "c", "t", "e", "d", ")">>

\* the sentinel _copy_transcript_text writes before the copy gesture
\* (main.py:513); the time_ns part is one fixed character here
SENTINEL == <<"_", "_", "c", "l", "i", "p", "_", "0", "_", "_">>

\* What the clipboard can hold when _clipboard_wait_for_change returns
\* (main.py:318-327): a changed, non-blank text, or on timeout whatever it
\* holds then, the sentinel or a blank text included.
Transcripts ==
    { <<>>,                                     \* blank clipboard at the timeout
      SENTINEL,                                 \* unchanged at the timeout
      <<"Q", "\n", "A", ":">>,                  \* a marker with nothing after it
      <<"Q", "\n", "A", ":", " ", "o", "k">>,   \* a 2-character answer
      <<"A", ":", " ", "d", "o", "n", "e">>,    \* a 4-character answer
      <<"a", ":">> \o PLACEHOLDER               \* the placeholder as the answer
    }

\* The success criterion of the send/retry controller as the specification
\* words it; it only feeds the history variable firstSuccess.
MeetsCriterion(a) == a # <<>> /\ a # PLACEHOLDER /\ Len(strip(a)) >= 4

\* main.py:569
total_tries_mut_C4(n) == Max(1, n)
total_tries(n) == Max(1, 1 + n)

\* main.py:578, the loop's break condition
is_success_mut_C23(a) == a # <<>> /\ Len(strip(a)) >= 4
is_success(a) == a # <<>> /\ a # PLACEHOLDER /\ Len(strip(a)) >= 4

\* main.py:586-587
final_answer_mut_C5(a) == a
final_answer(a) == IF a = <<>> THEN PLACEHOLDER ELSE a

\* _click_by_image (main.py:284-315) for a template that is configured or not:
\* the outcomes it can have
ImageOutcomes(image) == IF image THEN {"clicked", "timeout", "missing"} ELSE {"unset"}

\* The focus action _focus_input takes (main.py:484-509), by strict priority;
\* "raise_missing" is _click_by_image raising for a missing template file,
\* "raise_none" the "No way to focus input" error.
focus_resolve_mut_C28(hotkey, region, imageOutcome, xy) ==
    IF hotkey THEN "hotkey"
    ELSE IF region THEN "region"
    ELSE IF imageOutcome = "clicked" THEN "image"
    ELSE IF xy THEN "point"
    ELSE "raise_none"

focus_resolve(hotkey, region, imageOutcome, xy) ==
    IF hotkey THEN "hotkey"
    ELSE IF region THEN "region"
    ELSE IF imageOutcome = "missing" THEN "raise_missing"
    ELSE IF imageOutcome = "clicked" THEN "image"
    ELSE IF xy THEN "point"
    ELSE "raise_none"

_focus_input(imageOutcome) ==
    focus_resolve(IDE_CHAT_FOCUS_HOTKEY, input_region, imageOutcome, input_xy)

\* the focus part of _copy_transcript_text (main.py:516-535)
_focus_transcript(imageOutcome) ==
    focus_resolve(IDE_FOCUS_TRANSCRIPT_HOTKEY, output_region, imageOutcome, output_xy)

IsRaise(m) == m \in {"raise_missing", "raise_none"}

\* str(exc) of the bridge's errors, one character per kind of error
exc_text(kind) == <<kind>>

\* The job has been claimed (status processing) and handle_command has reached
\* its default branch (main.py:1105-1117).
InitChat ==
    /\ LOG_MAX_CHARS = 20000
    /\ AGENT_USER_ID = "" /\ POLL_MAX_BATCH = 20
    /\ AI_ANSWER_MARKERS = <<"A", ":">>
    /\ IDE_SEND_RETRY_COUNT \in (0 - 1)..MaxRetry
    /\ IDE_CHAT_FOCUS_HOTKEY \in BOOLEAN /\ input_region \in BOOLEAN
    /\ IDE_INPUT_IMAGE \in BOOLEAN /\ input_xy \in BOOLEAN
    /\ IDE_FOCUS_TRANSCRIPT_HOTKEY \in BOOLEAN /\ output_region \in BOOLEAN
    /\ IDE_OUTPUT_IMAGE \in BOOLEAN /\ output_xy \in BOOLEAN
    /\ PureIdle
    /\ ShellIdle
    /\ QueueIdle
    /\ chPc = "start" /\ attempt = 0 /\ answer = <<>>
    /\ submits = 0 /\ pastes = 0 /\ copies = 0 /\ extractions = 0
    /\ firstSuccess = 0 /\ chResult = <<>>
    /\ chStatus = "processing" /\ chLog = <<>>
    /\ clip = ClipOff
    /\ activations = 0

ChatRaise(message) ==
    /\ chPc' = "raised"
    /\ chResult' = <<"exc", message>>

ChatLocate_mut_C20 ==
    /\ chPc = "start"
    /\ \E outcome \in {"ok", "no_window"} :
          IF outcome = "ok"
          THEN chPc' = "activate" /\ UNCHANGED chResult
          ELSE chPc' = "activate" /\ chResult' = <<"exc", outcome>>
    /\ UNCHANGED <<configVars, pureVars, shellVars, queueVars, clip, activations, attempt, answer, submits, pastes, copies,
                   extractions, firstSuccess, chStatus, chLog>>

\* main.py:371-405: the window is looked up; with none the bridge raises
ChatLocate ==
    /\ chPc = "start"
    /\ \E outcome \in {"ok", "no_window"} :
          IF outcome = "ok"
          THEN chPc' = "activate" /\ UNCHANGED chResult
          ELSE ChatRaise(outcome)
    /\ UNCHANGED <<configVars, pureVars, shellVars, queueVars, clip, activations, attempt, answer, submits, pastes, copies,
                   extractions, firstSuccess, chStatus, chLog>>

\* main.py:472, the attempts ide_chat_via_gui asks for
ACTIVATION_ATTEMPTS == 6

ChatActivate_mut_C27 ==
    /\ chPc = "activate"
    /\ activations < Max(1, ACTIVATION_ATTEMPTS) + 1
    /\ \E passed \in BOOLEAN :
          IF passed
          THEN chPc' = "send" /\ activations' = 0 /\ UNCHANGED chResult
          ELSE /\ activations' = activations + 1
               /\ IF activations' = Max(1, ACTIVATION_ATTEMPTS) + 1
                  THEN ChatRaise("activate_failed")
                  ELSE UNCHANGED <<chPc, chResult>>
    /\ UNCHANGED <<configVars, pureVars, shellVars, queueVars, clip, attempt, answer, submits, pastes,
                   copies, extractions, firstSuccess, chStatus, chLog>>

\* main.py:463-472, one pass of the loop of _activate_window_with_retries:
\* _activate_window_once returns and so does the function, or it raises and
\* the loop goes on; after the last pass the RuntimeError is raised
ChatActivate ==
    /\ chPc = "activate"
    /\ activations < Max(1, ACTIVATION_ATTEMPTS)
    /\ \E passed \in BOOLEAN :
          IF passed
          THEN chPc' = "send" /\ activations' = 0 /\ UNCHANGED chResult
          ELSE /\ activations' = activations + 1
               /\ IF activations' = Max(1, ACTIVATION_ATTEMPTS)
                  THEN ChatRaise("activate_failed")
                  ELSE UNCHANGED <<chPc, chResult>>
    /\ UNCHANGED <<configVars, pureVars, shellVars, queueVars, clip, attempt, answer, submits, pastes,
                   copies, extractions, firstSuccess, chStatus, chLog>>

ChatSend_mut_C24 ==
    /\ chPc \in {"send", "wait"}
    /\ pastes < 3
    /\ \E io \in ImageOutcomes(IDE_INPUT_IMAGE) :
          IF IsRaise(_focus_input(io))
          THEN ChatRaise(_focus_input(io)) /\ UNCHANGED <<pastes, submits>>
          ELSE /\ pastes' = pastes + 1
               /\ submits' = submits + 1
               /\ chPc' = "wait"
               /\ UNCHANGED chResult
    /\ UNCHANGED <<configVars, pureVars, shellVars, queueVars, clip, activations, attempt, answer, copies, extractions,
                   firstSuccess, chStatus, chLog>>

\* main.py:560-565: copy the question, focus the input, paste, press Enter
ChatSend ==
    /\ chPc = "send"
    /\ \E io \in ImageOutcomes(IDE_INPUT_IMAGE) :
          IF IsRaise(_focus_input(io))
          THEN ChatRaise(_focus_input(io)) /\ UNCHANGED <<pastes, submits>>
          ELSE /\ pastes' = pastes + 1
               /\ submits' = submits + 1
               /\ chPc' = "wait"
               /\ UNCHANGED chResult
    /\ UNCHANGED <<configVars, pureVars, shellVars, queueVars, clip, activations, attempt, answer, copies, extractions,
                   firstSuccess, chStatus, chLog>>

ChatAttempt_mut_C37 ==
    /\ chPc = "wait"
    /\ attempt < total_tries(IDE_SEND_RETRY_COUNT)
    /\ \E io \in ImageOutcomes(IDE_OUTPUT_IMAGE) :
          IF IsRaise(_focus_transcript(io))
          THEN /\ ChatRaise(_focus_transcript(io))
               /\ UNCHANGED <<attempt, answer, submits, copies, extractions, firstSuccess>>
          ELSE \E last_copied \in Transcripts :
                  LET a == _extract_last_ai_answer(last_copied)
                      n == extractions + 1
                  IN /\ copies' = copies + 1
                     /\ extractions' = n
                     /\ answer' = a
                     /\ firstSuccess' =
                           IF firstSuccess = 0 /\ MeetsCriterion(a) THEN n ELSE firstSuccess
                     /\ IF is_success(a)
                        THEN chPc' = "finish" /\ UNCHANGED <<attempt, submits, chResult>>
                        ELSE \E io2 \in ImageOutcomes(IDE_INPUT_IMAGE) :
                                IF IsRaise(_focus_input(io2))
                                THEN /\ ChatRaise(_focus_input(io2))
                                     /\ UNCHANGED <<attempt, submits>>
                                ELSE /\ submits' = submits + 1
                                     /\ attempt' = attempt + 1
                                     /\ chPc' = IF attempt + 1 < total_tries(IDE_SEND_RETRY_COUNT)
                                                THEN "wait" ELSE "finish"
                                     /\ UNCHANGED chResult
    /\ UNCHANGED <<configVars, pureVars, shellVars, queueVars, clip, activations, pastes, chStatus, chLog>>

\* main.py:570-584: one iteration of the loop: wait, copy the transcript,
\* extract, then break, re-submit or fall out of the loop
ChatAttempt ==
    /\ chPc = "wait"
    /\ attempt < total_tries(IDE_SEND_RETRY_COUNT)
    /\ \E io \in ImageOutcomes(IDE_OUTPUT_IMAGE) :
          IF IsRaise(_focus_transcript(io))
          THEN /\ ChatRaise(_focus_transcript(io))
               /\ UNCHANGED <<attempt, answer, submits, copies, extractions, firstSuccess>>
          ELSE \E last_copied \in Transcripts :
                  LET a == _extract_last_ai_answer(last_copied)
                      n == extractions + 1
                  IN /\ copies' = copies + 1
                     /\ extractions' = n
                     /\ answer' = a
                     /\ firstSuccess' =
                           IF firstSuccess = 0 /\ MeetsCriterion(a) THEN n ELSE firstSuccess
                     /\ IF is_success(a)
                        THEN chPc' = "finish" /\ UNCHANGED <<attempt, submits, chResult>>
                        ELSE IF attempt < total_tries(IDE_SEND_RETRY_COUNT) - 1
                        THEN \E io2 \in ImageOutcomes(IDE_INPUT_IMAGE) :
                                IF IsRaise(_focus_input(io2))
                                THEN /\ ChatRaise(_focus_input(io2))
                                     /\ UNCHANGED <<attempt, submits>>
                                ELSE /\ submits' = submits + 1
                                     /\ attempt' = attempt + 1
                                     /\ chPc' = "wait"
                                     /\ UNCHANGED chResult
                        ELSE /\ attempt' = attempt + 1
                             /\ chPc' = "finish"
                             /\ UNCHANGED <<submits, chResult>>
    /\ UNCHANGED <<configVars, pureVars, shellVars, queueVars, clip, activations, pastes, chStatus, chLog>>

\* main.py:586-589
ChatReturn ==
    /\ chPc = "finish"
    /\ chResult' = <<final_answer(answer)>>
    /\ chPc' = "returned"
    /\ UNCHANGED <<configVars, pureVars, shellVars, queueVars, clip, activations, attempt, answer, submits, pastes, copies,
                   extractions, firstSuccess, chStatus, chLog>>

\* main.py:1118: the result is reported completed
ChatReportCompleted ==
    /\ chPc = "returned"
    /\ chStatus' = "completed"
    /\ chLog' = _truncate_log(chResult[1])
    /\ chPc' = "done"
    /\ UNCHANGED <<configVars, pureVars, shellVars, queueVars, clip, activations, attempt, answer, submits, pastes, copies,
                   extractions, firstSuccess, chResult>>

\* main.py:1120-1122: an exception of the bridge is reported as error
ChatReportError ==
    /\ chPc = "raised"
    /\ chStatus' = "error"
    /\ chLog' = _truncate_log(exc_text(chResult[2]))
    /\ chPc' = "done"
    /\ UNCHANGED <<configVars, pureVars, shellVars, queueVars, clip, activations, attempt, answer, submits, pastes, copies,
                   extractions, firstSuccess, chResult>>

NextChat ==
    \/ ChatLocate
    \/ ChatActivate
    \/ ChatSend
    \/ ChatAttempt
    \/ ChatReturn
    \/ ChatReportCompleted
    \/ ChatReportError

SpecChat == InitChat /\ [][NextChat]_vars

\* ------------------------------- _copy_transcript_text and the clipboard
\* One copy step with the clipboard it shares with every other program.  A
\* clipboard text is one of: the empty text, a blank text, the question pasted
\* before, transcript text, another program's text, the sentinel.
CLIP_SENTINEL == "sentinel"

ClipTexts == {"", " ", "question", "transcript", "other"}

\* cur.strip() is empty (main.py:324)
IsBlankText(t) == t \in {"", " "}

InitClip ==
    /\ LOG_MAX_CHARS = 20000
    /\ AGENT_USER_ID = "" /\ POLL_MAX_BATCH = 20
    /\ AI_ANSWER_MARKERS = <<"A", ":">>
    /\ IDE_SEND_RETRY_COUNT = 1
    /\ FocusUnset
    /\ PureIdle
    /\ ShellIdle
    /\ QueueIdle
    /\ chPc = "idle" /\ attempt = 0 /\ answer = <<>>
    /\ submits = 0 /\ pastes = 0 /\ copies = 0 /\ extractions = 0
    /\ firstSuccess = 0 /\ chResult = <<>> /\ chStatus = "none" /\ chLog = <<>>
    /\ activations = 0
    /\ \E b \in {"question", "transcript", ""}, n \in 1..MaxPolls :
          clip = [ClipOff EXCEPT !.board = b, !.pc = "start", !.polls = n]

ClipOthers ==
    <<configVars, pureVars, shellVars, queueVars, chPc, attempt, answer, submits, pastes, copies,
      extractions, firstSuccess, chResult, chStatus, chLog, activations>>

\* main.py:513-514: the sentinel replaces what the clipboard holds
ClipWriteSentinel_mut_C25 ==
    /\ clip.pc = "start"
    /\ clip' = [clip EXCEPT !.before = clip.board, !.pc = "armed"]
    /\ UNCHANGED ClipOthers

ClipWriteSentinel ==
    /\ clip.pc = "start"
    /\ clip' = [clip EXCEPT !.board = CLIP_SENTINEL, !.before = clip.board, !.pc = "armed"]
    /\ UNCHANGED ClipOthers

\* main.py:516-556: the transcript is focused, which may raise, and the copy
\* keys are sent; what the IDE then puts on the clipboard arrives like any
\* other program's write
ClipGesture ==
    /\ clip.pc = "armed"
    /\ \E focused \in BOOLEAN :
          clip' = [clip EXCEPT !.pc = IF focused THEN "polling" ELSE "raised"]
    /\ UNCHANGED ClipOthers

\* the IDE answering the copy keys, or any other program, writes the clipboard
ClipOtherWrite ==
    /\ clip.pc \in {"start", "armed", "polling"}
    /\ clip.writes < MaxClipWrites
    /\ \E t \in ClipTexts :
          clip' = [clip EXCEPT !.board = t,
                               !.writes = @ + 1,
                               !.again = @ \/ (clip.pc # "start" /\ t = clip.before)]
    /\ UNCHANGED ClipOthers

\* _clipboard_wait_for_change, one turn of the loop (main.py:322-326)
ClipPoll ==
    /\ clip.pc = "polling" /\ clip.polls > 0
    /\ LET read == clip.board
       IN IF read # CLIP_SENTINEL /\ ~IsBlankText(read)
          THEN clip' = [clip EXCEPT !.seen = Append(@, read), !.out = <<read>>,
                                    !.how = "change", !.pc = "returned"]
          ELSE clip' = [clip EXCEPT !.seen = Append(@, read), !.polls = @ - 1]
    /\ UNCHANGED ClipOthers

\* the deadline has passed: one last read is returned (main.py:327)
ClipDeadline ==
    /\ clip.pc = "polling" /\ clip.polls = 0
    /\ clip' = [clip EXCEPT !.out = <<clip.board>>, !.how = "timeout", !.pc = "returned"]
    /\ UNCHANGED ClipOthers

NextClip ==
    \/ ClipWriteSentinel
    \/ ClipGesture
    \/ ClipOtherWrite
    \/ ClipPoll
    \/ ClipDeadline

SpecClip == InitClip /\ [][NextClip]_vars

\* ========================================================== run_shell_command
NO_OUTPUT == <<"(", "n", "o", " ", "o", "u", "t", "p", "u", "t", ")">>

FAILED_PREFIX ==
    <<"C", "o", "m", "m", "a", "n", "d", " ", "f", "a", "i", "l", "e", "d", " ",
      "w", "i", "t", "h", " ", "e", "x", "i", "t", " ", "c", "o", "d", "e", " ">>

\* the exit codes of the model: success, two failures, and the code of a
\* killed process
KILLED == 0 - 9
ExitCodes == {0, 1, 7}

\* str(exit_code) for the codes of the model
str_exit_code(c) ==
    CASE c = 0 -> <<"0">>
      [] c = 1 -> <<"1">>
      [] c = 7 -> <<"7">>
      [] c = KILLED -> <<"-", "9">>

ShellLines == {<<"x", "\n">>, <<" ", "\n">>}
ShellBudgets == {0, 3, 40}

\* "".join(buffer)
RECURSIVE concat(_)
concat(parts) == IF parts = <<>> THEN <<>> ELSE Head(parts) \o concat(Tail(parts))

\* main.py:227-229
final_log_mut_C9(buf) == concat(buf)
final_log(buf) == IF strip(concat(buf)) = <<>> THEN NO_OUTPUT ELSE concat(buf)

\* main.py:232, str(exc) of the RuntimeError
failure_message(c, log) == FAILED_PREFIX \o str_exit_code(c) \o <<"\n", "\n">> \o log

\* The job has been claimed (status processing, log "Command received") and
\* handle_command has reached the /sh branch (main.py:1097-1101).
InitShell ==
    /\ LOG_MAX_CHARS \in ShellBudgets
    /\ AGENT_USER_ID = "" /\ POLL_MAX_BATCH = 20
    /\ AI_ANSWER_MARKERS = <<"A", ":">>
    /\ IDE_SEND_RETRY_COUNT = 1
    /\ FocusUnset
    /\ PureIdle
    /\ ChatIdle
    /\ QueueIdle
    /\ shPc = "start" /\ proc = <<"none">> /\ orphans = FALSE /\ buffer = <<>> /\ exit_code = 0
    /\ shResult = <<>> /\ shStatus = "processing" /\ shLog = <<"r", "c", "v", "d">>
    /\ flush = [since |-> 0, count |-> 0]

\* main.py:190-219: the process and the watchdog thread are started
ShStart ==
    /\ shPc = "start"
    /\ proc' = <<"running">>
    /\ buffer' = <<>>
    /\ flush' = [flush EXCEPT !.since = 0]
    /\ shPc' = "reading"
    /\ UNCHANGED <<configVars, pureVars, chatVars, queueVars, orphans, exit_code, shResult, shStatus,
                   shLog>>

\* main.py:26, in ticks of the model's clock
LOG_FLUSH_INTERVAL_SEC == 2

\* time passes while run_shell_command waits for a line
ShTick ==
    /\ shPc = "reading"
    /\ flush.since < LOG_FLUSH_INTERVAL_SEC
    /\ flush' = [flush EXCEPT !.since = @ + 1]
    /\ UNCHANGED <<configVars, pureVars, chatVars, queueVars, shPc, proc, orphans, buffer,
                   exit_code, shResult, shStatus, shLog>>

ShReadLine_mut_C29 ==
    /\ shPc = "reading" /\ (proc = <<"running">> \/ orphans)
    /\ Len(buffer) < MaxLines
    /\ \E line \in ShellLines :
          /\ buffer' = Append(buffer, line)
          /\ shStatus' = "processing"
          /\ shLog' = _truncate_log(concat(buffer'))
          /\ flush' = [since |-> 0, count |-> flush.count + 1]
    /\ UNCHANGED <<configVars, pureVars, chatVars, queueVars, shPc, proc, orphans, exit_code,
                   shResult>>

\* main.py:222-224 with flush_partial (main.py:202-210): one line is read;
\* the partial log is written, and last_flush taken anew, unless less than
\* the flush interval has passed since last_flush
ShReadLine ==
    /\ shPc = "reading" /\ (proc = <<"running">> \/ orphans)
    /\ Len(buffer) < MaxLines
    /\ \E line \in ShellLines :
          /\ buffer' = Append(buffer, line)
          /\ IF flush.since < LOG_FLUSH_INTERVAL_SEC
             THEN UNCHANGED <<shStatus, shLog, flush>>
             ELSE /\ shStatus' = "processing"
                  /\ shLog' = _truncate_log(concat(buffer'))
                  /\ flush' = [since |-> 0, count |-> flush.count + 1]
    /\ UNCHANGED <<configVars, pureVars, chatVars, queueVars, shPc, proc, orphans, exit_code,
                   shResult>>

\* the process ends by itself
ShProcessExit ==
    /\ proc = <<"running">>
    /\ \E c \in ExitCodes : proc' = <<"exited", c>>
    /\ UNCHANGED <<configVars, pureVars, chatVars, queueVars, flush, shPc, orphans, buffer, exit_code,
                   shResult, shStatus, shLog>>

\* main.py:212-216: the watchdog's wait times out and it kills the process.
\* The process is the shell of Popen(..., shell=True) (main.py:190-197):
\* process.kill() ends the shell alone, and a process the shell was running
\* lives on with the shell's stdout.
ShWatchdogKill ==
    /\ proc = <<"running">>
    /\ proc' = <<"exited", KILLED>>
    /\ orphans' \in BOOLEAN
    /\ UNCHANGED <<configVars, pureVars, chatVars, queueVars, flush, shPc, buffer, exit_code, shResult,
                   shStatus, shLog>>

\* the processes left behind by the killed shell end and close its stdout
ShOrphansExit ==
    /\ orphans
    /\ orphans' = FALSE
    /\ UNCHANGED <<configVars, pureVars, chatVars, queueVars, flush, shPc, proc, buffer, exit_code,
                   shResult, shStatus, shLog>>

\* main.py:226-234: stdout is at its end, which takes every process holding
\* it to have ended; the exit code decides
ShFinish ==
    /\ shPc = "reading" /\ proc[1] = "exited" /\ ~orphans
    /\ exit_code' = proc[2]
    /\ IF proc[2] # 0
       THEN /\ shResult' = <<"exc", failure_message(proc[2], final_log(buffer))>>
            /\ shPc' = "raised"
       ELSE /\ shResult' = <<final_log(buffer)>>
            /\ shPc' = "returned"
    /\ UNCHANGED <<configVars, pureVars, chatVars, queueVars, flush, proc, orphans, buffer, shStatus, shLog>>

\* main.py:1102: update_command(command_id, "completed", response_log=out)
ShReportCompleted ==
    /\ shPc = "returned"
    /\ shStatus' = "completed"
    /\ shLog' = _truncate_log(shResult[1])
    /\ shPc' = "done"
    /\ UNCHANGED <<configVars, pureVars, chatVars, queueVars, flush, proc, orphans, buffer, exit_code,
                   shResult>>

\* main.py:1120-1122: update_command(command_id, "error", response_log=str(exc))
ShReportError ==
    /\ shPc = "raised"
    /\ shStatus' = "error"
    /\ shLog' = _truncate_log(shResult[2])
    /\ shPc' = "done"
    /\ UNCHANGED <<configVars, pureVars, chatVars, queueVars, flush, proc, orphans, buffer, exit_code,
                   shResult>>

NextShell ==
    \/ ShStart
    \/ ShTick
    \/ ShReadLine
    \/ ShProcessExit
    \/ ShWatchdogKill
    \/ ShOrphansExit
    \/ ShFinish
    \/ ShReportCompleted
    \/ ShReportError

SpecShell == InitShell /\ [][NextShell]_vars

\* run_shell_command and handle_command keep running, and a running process
\* ends by itself or reaches COMMAND_TIMEOUT_SEC (main.py:212-216).  Nothing
\* bounds the life of the processes a killed shell leaves behind.
ShAgentRuns ==
    \/ ShStart
    \/ ShFinish
    \/ ShReportCompleted
    \/ ShReportError

FairSpecShell ==
    /\ SpecShell
    /\ WF_vars(ShAgentRuns)
    /\ WF_vars(ShProcessExit \/ ShWatchdogKill)

\* ===================================================== the pure-function runs
\* Each run draws an input in Init and applies the function once.
DefaultConfig ==
    /\ LOG_MAX_CHARS = 20000
    /\ AGENT_USER_ID = "" /\ POLL_MAX_BATCH = 20
    /\ AI_ANSWER_MARKERS = <<"A", ":">>
    /\ IDE_SEND_RETRY_COUNT = 1
    /\ FocusUnset

\* ---- _truncate_log
LogChars == {"x", "y", " "}
LogBudgets == 0..(MaxLogLen + 1)

InitTrunc ==
    /\ LOG_MAX_CHARS \in LogBudgets
    /\ AGENT_USER_ID = "" /\ POLL_MAX_BATCH = 20
    /\ AI_ANSWER_MARKERS = <<"A", ":">>
    /\ IDE_SEND_RETRY_COUNT = 1
    /\ FocusUnset
    /\ ChatIdle
    /\ ShellIdle
    /\ QueueIdle
    /\ fn = "_truncate_log"
    /\ arg \in SeqsUpTo(LogChars, MaxLogLen)
    /\ res = <<>>

ApplyTrunc ==
    /\ fn = "_truncate_log" /\ res = <<>>
    /\ res' = <<_truncate_log(arg)>>
    /\ UNCHANGED <<configVars, fn, arg, chatVars, shellVars, queueVars>>

SpecTrunc == InitTrunc /\ [][ApplyTrunc]_vars

\* ---- _extract_last_ai_answer
TextChars == {"a", "A", ":", " ", "\n", "U0130"}
MarkerConfigs ==
    { <<"A", ":">>,                    \* "A:"
      <<"A", ":", ",", "a">>,          \* "A:,a"    a marker and its own prefix
      <<" ", "a", ",", ",", "A", ":">> \* " a,,A:"  the prefix first, blanks dropped
    }

InitExtract ==
    /\ LOG_MAX_CHARS = 20000
    /\ AGENT_USER_ID = "" /\ POLL_MAX_BATCH = 20
    /\ AI_ANSWER_MARKERS \in MarkerConfigs
    /\ IDE_SEND_RETRY_COUNT = 1
    /\ FocusUnset
    /\ ChatIdle
    /\ ShellIdle
    /\ QueueIdle
    /\ fn = "_extract_last_ai_answer"
    /\ arg \in SeqsUpTo(TextChars, MaxTextLen)
    /\ res = <<>>

ApplyExtract ==
    /\ fn = "_extract_last_ai_answer" /\ res = <<>>
    /\ res' = <<_extract_last_ai_answer(arg)>>
    /\ UNCHANGED <<configVars, fn, arg, chatVars, shellVars, queueVars>>

SpecExtract == InitExtract /\ [][ApplyExtract]_vars

\* ---- _score_window, _choose_best_window
Widths == {0, 160, 1920}
Heights == {0, 28, 1080}
Windows == [isActive : BOOLEAN, isMinimized : BOOLEAN, width : Widths, height : Heights]

InitWindow ==
    /\ DefaultConfig
    /\ ChatIdle
    /\ ShellIdle
    /\ QueueIdle
    /\ fn = "_choose_best_window"
    /\ arg \in UNION {[1..k -> Windows] : k \in 1..MaxWindows}
    /\ res = <<>>

ApplyChoose ==
    /\ fn = "_choose_best_window" /\ res = <<>>
    /\ res' = <<_choose_best_window(arg)>>
    /\ UNCHANGED <<configVars, fn, arg, chatVars, shellVars, queueVars>>

SpecWindow == InitWindow /\ [][ApplyChoose]_vars

\* ---- Rect.clamp
Offsets == {0 - 50, 0, 1900}
Extents == {0 - 10, 0, 560, 3000}
Screens == {<<1920, 1080>>, <<1280, 720>>}

InitClamp ==
    /\ DefaultConfig
    /\ ChatIdle
    /\ ShellIdle
    /\ QueueIdle
    /\ fn = "clamp"
    /\ arg \in [rect : [left : Offsets, top : Offsets, width : Extents, height : Extents],
                 screen : Screens]
    /\ res = <<>>

ApplyClamp ==
    /\ fn = "clamp" /\ res = <<>>
    /\ res' = <<clamp(arg.rect, arg.screen[1], arg.screen[2])>>
    /\ UNCHANGED <<configVars, fn, arg, chatVars, shellVars, queueVars>>

SpecClamp == InitClamp /\ [][ApplyClamp]_vars

\* ---- the dispatch of handle_command
\* s.startswith(p)
startswith(s, p) == Len(s) >= Len(p) /\ SubSeq(s, 1, Len(p)) = p

\* s.replace(old, "", 1): the left-most occurrence of old is removed
replace_first(s, old) ==
    LET starts == {i \in 0..(Len(s) - Len(old)) : SubSeq(s, i + 1, i + Len(old)) = old}
    IN IF starts = {} THEN s
       ELSE LET i == CHOOSE a \in starts : \A b \in starts : a <= b
            IN SubSeq(s, 1, i) \o SubSeq(s, i + Len(old) + 1, Len(s))

\* the literal commands of main.py:993-1072, in the order they are tested
LITERAL_COMMANDS ==
    <<"/pos", "/ide learn input", "/ide learn output", "/ide status",
      "/ide calibrate regions", "/ide calibrate input", "/ide calibrate output",
      "/ide debug screen", "/capture">>

\* the routing prefixes of main.py:1108, in the order they are tested
ROUTING_PREFIXES == <<"@ag ", "@antigravity ", "@vscode ", "@cursor ">>

\* main.py:1106-1112: the first routing prefix that q.lower() starts with is
\* cut off, by its length, from q
RECURSIVE strip_routing_from(_, _)
strip_routing_from(q, k) ==
    IF k > Len(ROUTING_PREFIXES) THEN q
    ELSE IF startswith(lower(q), Chars(ROUTING_PREFIXES[k]))
         THEN lstrip(PySliceFrom(q, Len(ROUTING_PREFIXES[k])))
         ELSE strip_routing_from(q, k + 1)

strip_routing(q) == strip_routing_from(q, 1)

\* main.py:1097, the test that opens the /sh branch
is_sh_command_mut_C11(command_text) == startswith(strip_routing(command_text), Chars("/sh "))
is_sh_command(command_text) == startswith(command_text, Chars("/sh "))

\* main.py:1091, the test of the legacy alias
is_whoami(command_text) == lower(strip(command_text)) = Chars("whoami")

Call(handler, text) == [handler |-> handler, text |-> text]

\* main.py:961 and 992-1117: the handler a command text is dispatched to and
\* the text it is given; "raise" is a usage error raised by the branch itself
dispatch(raw) ==
    LET command_text == strip(raw)
    IN IF \E i \in 1..Len(LITERAL_COMMANDS) : command_text = Chars(LITERAL_COMMANDS[i])
       THEN Call(LET i == CHOOSE k \in 1..Len(LITERAL_COMMANDS) :
                              command_text = Chars(LITERAL_COMMANDS[k])
                 IN LITERAL_COMMANDS[i], <<>>)
       ELSE IF startswith(command_text, Chars("/ide debug locate "))
       THEN Call("ide_debug_locate",
                 lower(strip(replace_first(command_text, Chars("/ide debug locate ")))))
       ELSE IF startswith(command_text, Chars("/open "))
       THEN LET app_name == strip(replace_first(command_text, Chars("/open ")))
            IN IF app_name = <<>> THEN Call("raise", Chars("Usage: /open [app_name]"))
               ELSE Call("open_app", app_name)
       ELSE IF is_whoami(command_text)
       THEN Call("run_shell_command", Chars("whoami"))
       ELSE IF is_sh_command(command_text)
       THEN LET shell_text == strip(replace_first(command_text, Chars("/sh ")))
            IN IF shell_text = <<>> THEN Call("raise", Chars("Usage: /sh [shell command]"))
               ELSE Call("run_shell_command", shell_text)
       ELSE Call("ide_chat_via_gui", strip_routing(command_text))

\* the command texts of the run: padding, an optional routing token and a body
CommandPads == {"", " ", "\n"}
CommandRoutes == {"", "@vscode ", "@Ag ", "@cursor  "}
CommandBodies ==
    {"/sh ls", "/SH ls", "/shls", "/sh", "/sh  /sh x", "whoami", "WhoAmI", "whoami x",
     "/pos", "/pos x", "/open vi", "/open", "/capture", "/ide status",
     "/ide debug locate Input", "hi", "sh ls", "a /sh ls", ""}

PaddedTexts ==
    {Chars(l \o r \o b \o t) :
        l \in CommandPads, r \in CommandRoutes, b \in CommandBodies, t \in CommandPads}

\* main.py:975-977: a text that is blank is answered before the dispatch
CommandTexts == {t \in PaddedTexts : strip(t) # <<>>}

InitDispatch ==
    /\ DefaultConfig
    /\ ChatIdle
    /\ ShellIdle
    /\ QueueIdle
    /\ fn = "dispatch"
    /\ arg \in CommandTexts
    /\ res = <<>>

ApplyDispatch ==
    /\ fn = "dispatch" /\ res = <<>>
    /\ res' = <<dispatch(arg)>>
    /\ UNCHANGED <<configVars, fn, arg, chatVars, shellVars, queueVars>>

SpecDispatch == InitDispatch /\ [][ApplyDispatch]_vars

\* ---- focus resolution
\* The focus actions one resolution performs before it returns or raises
\* (main.py:484-509 for the input, 516-535 for the transcript): each branch
\* that acts returns, so what follows it is not run.
focus_actions_mut_C12(hotkey, region, imageOutcome, xy) ==
    (IF hotkey THEN <<"hotkey">> ELSE <<>>)
        \o (IF region THEN <<"region">> ELSE <<>>)
        \o (IF imageOutcome = "clicked" THEN <<"image">> ELSE <<>>)
        \o (IF xy THEN <<"point">> ELSE <<>>)

focus_actions(hotkey, region, imageOutcome, xy) ==
    IF hotkey THEN <<"hotkey">>
    ELSE IF region THEN <<"region">>
    ELSE IF imageOutcome = "missing" THEN <<>>
    ELSE IF imageOutcome = "clicked" THEN <<"image">>
    ELSE IF xy THEN <<"point">>
    ELSE <<>>

FocusTargets == {"input", "transcript"}

\* the configuration of one target, as ide_chat_via_gui reads it
focus_config(target) ==
    IF target = "input"
    THEN [hotkey |-> IDE_CHAT_FOCUS_HOTKEY, region |-> input_region,
          image |-> IDE_INPUT_IMAGE, xy |-> input_xy]
    ELSE [hotkey |-> IDE_FOCUS_TRANSCRIPT_HOTKEY, region |-> output_region,
          image |-> IDE_OUTPUT_IMAGE, xy |-> output_xy]

focus(target, imageOutcome) ==
    LET c == focus_config(target)
    IN [actions |-> focus_actions(c.hotkey, c.region, imageOutcome, c.xy),
        outcome |-> IF target = "input" THEN _focus_input(imageOutcome)
                    ELSE _focus_transcript(imageOutcome)]

InitFocus ==
    /\ LOG_MAX_CHARS = 20000
    /\ AGENT_USER_ID = "" /\ POLL_MAX_BATCH = 20
    /\ AI_ANSWER_MARKERS = <<"A", ":">>
    /\ IDE_SEND_RETRY_COUNT = 1
    /\ IDE_CHAT_FOCUS_HOTKEY \in BOOLEAN /\ input_region \in BOOLEAN
    /\ IDE_INPUT_IMAGE \in BOOLEAN /\ input_xy \in BOOLEAN
    /\ IDE_FOCUS_TRANSCRIPT_HOTKEY \in BOOLEAN /\ output_region \in BOOLEAN
    /\ IDE_OUTPUT_IMAGE \in BOOLEAN /\ output_xy \in BOOLEAN
    /\ ChatIdle
    /\ ShellIdle
    /\ QueueIdle
    /\ fn = "focus"
    /\ \E target \in FocusTargets :
          \E io \in ImageOutcomes(focus_config(target).image) :
             arg = [target |-> target, imageOutcome |-> io]
    /\ res = <<>>

ApplyFocus ==
    /\ fn = "focus" /\ res = <<>>
    /\ res' = <<focus(arg.target, arg.imageOutcome)>>
    /\ UNCHANGED <<configVars, fn, arg, chatVars, shellVars, queueVars>>

SpecFocus == InitFocus /\ [][ApplyFocus]_vars

\* ---- _upsert_env_vars (main.py:763-793, region_picker.py:366-392)
\* str.splitlines: the line boundaries of the model's alphabet are "\n" and
\* the form feed; no empty last line is produced for a final boundary
IsLineBreak(c) == c \in {"\n", "\f"}

RECURSIVE splitlines(_)
splitlines(s) ==
    LET cuts == {i \in 1..Len(s) : IsLineBreak(s[i])}
    IN IF s = <<>> THEN <<>>
       ELSE IF cuts = {} THEN <<s>>
       ELSE LET i == CHOOSE c \in cuts : \A d \in cuts : c <= d
            IN <<SubSeq(s, 1, i - 1)>> \o splitlines(SubSeq(s, i + 1, Len(s)))

HasChar(s, c) == \E i \in 1..Len(s) : s[i] = c

\* the test of main.py:777: the line is copied as it is
is_passed_through(line) ==
    LET s == strip(line) IN s = <<>> \/ s[1] = "#" \/ ~HasChar(s, "=")

\* main.py:781
key_of(line) == strip(split(strip(line), "=")[1])

\* updates is a dict: a sequence of [k, v] with distinct keys, in insertion order
has_key(updates, key) == \E i \in 1..Len(updates) : updates[i].k = key

value_of(updates, key) == updates[CHOOSE i \in 1..Len(updates) : updates[i].k = key].v

\* main.py:775-786, one iteration of the loop: the line written for a line read
upsert_line_mut_C22(line, updates) ==
    IF is_passed_through(line) THEN strip(line)
    ELSE IF has_key(updates, key_of(line))
         THEN key_of(line) \o <<"=">> \o value_of(updates, key_of(line))
         ELSE line

upsert_line(line, updates) ==
    IF is_passed_through(line) THEN line
    ELSE IF has_key(updates, key_of(line))
         THEN key_of(line) \o <<"=">> \o value_of(updates, key_of(line))
         ELSE line

\* the set replaced when the loop has ended
replaced_keys(lines, updates) ==
    {key_of(lines[i]) : i \in {n \in 1..Len(lines) :
                                  /\ ~is_passed_through(lines[n])
                                  /\ has_key(updates, key_of(lines[n]))}}

\* main.py:788-790
RECURSIVE append_missing(_, _)
append_missing(updates, replaced) ==
    IF updates = <<>> THEN <<>>
    ELSE (IF Head(updates).k \notin replaced
          THEN <<Head(updates).k \o <<"=">> \o Head(updates).v>>
          ELSE <<>>) \o append_missing(Tail(updates), replaced)

\* The content written (main.py:792) for the content read; a file that does
\* not exist reads as the empty content (main.py:768-770).
_upsert_env_vars(content, updates) ==
    LET lines == splitlines(content)
        out == [i \in 1..Len(lines) |-> upsert_line(lines[i], updates)]
                  \o append_missing(updates, replaced_keys(lines, updates))
    IN join(out, "\n") \o <<"\n">>

EnvChars == {"K", "a", "=", "#", " ", "\n", "\f"}

\* update maps: none; one key; two keys, one with an empty value; a key with
\* a leading blank; a value of two lines
UpdateMaps ==
    { <<>>,
      <<[k |-> <<"K">>, v |-> <<"1">>]>>,
      <<[k |-> <<"K">>, v |-> <<"1">>], [k |-> <<"a">>, v |-> <<>>]>>,
      <<[k |-> <<" ", "K">>, v |-> <<"1">>]>>,
      <<[k |-> <<"K">>, v |-> <<"1", "\n", "a">>]>> }

InitUpsert ==
    /\ DefaultConfig
    /\ ChatIdle
    /\ ShellIdle
    /\ QueueIdle
    /\ fn = "_upsert_env_vars"
    /\ arg \in [content : SeqsUpTo(EnvChars, MaxEnvLen), updates : UpdateMaps]
    /\ res = <<>>

\* the file is rewritten, once and then once more with the same updates
ApplyUpsert ==
    /\ fn = "_upsert_env_vars" /\ Len(res) < 2
    /\ res' = Append(res, _upsert_env_vars(IF res = <<>> THEN arg.content ELSE res[1],
                                           arg.updates))
    /\ UNCHANGED <<configVars, fn, arg, chatVars, shellVars, queueVars>>

SpecUpsert == InitUpsert /\ [][ApplyUpsert]_vars

\* ---- _activate_window_once (main.py:407-461)
\* The layout of a window: shown normal or maximized, or minimized from
\* either.  ShowWindow(SW_RESTORE), which is also pygetwindow's restore(),
\* brings a minimized window back to what it was and a maximized one to its
\* normal size; SW_SHOWMAXIMIZED maximizes; SW_SHOW keeps the layout.
Layouts == {"normal", "maximized", "min_normal", "min_maximized"}

IsMinimized(layout) == layout \in {"min_normal", "min_maximized"}

ShowWindow(layout, cmd) ==
    CASE cmd = "SW_RESTORE" -> (IF layout = "min_maximized" THEN "maximized" ELSE "normal")
      [] cmd = "SW_SHOWMAXIMIZED" -> "maximized"
      [] cmd = "SW_SHOW" -> layout

\* What the calls of one activation do or raise: the handle is there
\* (main.py:413-415), IsIconic/IsZoomed answer (main.py:423-428), the
\* foreground calls pass (main.py:437-449), the first and the second
\* best_win.activate() pass (main.py:456, 460).
ActivationEnvs == [hwnd : BOOLEAN, query : BOOLEAN, foreground : BOOLEAN,
                   activate1 : BOOLEAN, activate2 : BOOLEAN]

\* main.py:430-435
show_command(layout, env) ==
    IF env.query /\ IsMinimized(layout) THEN "SW_RESTORE"
    ELSE IF env.query /\ layout = "maximized" THEN "SW_SHOWMAXIMIZED"
    ELSE "SW_SHOW"

\* main.py:450-460, the fallback: restored holds the layouts a restore was
\* issued on so far
fallback(layout, restored, env) ==
    LET restore1 == IsMinimized(layout)
        layoutA == IF restore1 THEN ShowWindow(layout, "SW_RESTORE") ELSE layout
        restoredA == IF restore1 THEN Append(restored, layout) ELSE restored
    IN IF env.activate1
       THEN [layout |-> layoutA, active |-> TRUE, restored |-> restoredA, raised |-> FALSE]
       ELSE [layout |-> ShowWindow(layoutA, "SW_RESTORE"),
             active |-> env.activate2,
             restored |-> Append(restoredA, layoutA),
             raised |-> ~env.activate2]

\* The window after one call, with the layouts that received a restore and
\* whether the call raised.  win is [layout, active].
_activate_window_once(win, env) ==
    IF ~env.hwnd THEN fallback(win.layout, <<>>, env)
    ELSE LET cmd == show_command(win.layout, env)
             shown == ShowWindow(win.layout, cmd)
             restored == IF cmd = "SW_RESTORE" THEN <<win.layout>> ELSE <<>>
         IN IF env.foreground
            THEN [layout |-> shown, active |-> TRUE, restored |-> restored, raised |-> FALSE]
            ELSE fallback(shown, restored, env)

InitActivateOnce ==
    /\ DefaultConfig
    /\ ChatIdle
    /\ ShellIdle
    /\ QueueIdle
    /\ fn = "_activate_window_once"
    /\ arg \in [win : [layout : Layouts, active : BOOLEAN], env : ActivationEnvs]
    /\ res = <<>>

\* the window is activated, and once more if the first call returned
ApplyActivateOnce ==
    /\ fn = "_activate_window_once"
    /\ \/ /\ res = <<>>
          /\ res' = <<_activate_window_once(arg.win, arg.env)>>
       \/ /\ Len(res) = 1 /\ ~res[1].raised
          /\ \E env \in ActivationEnvs :
                res' = Append(res, _activate_window_once(
                                      [layout |-> res[1].layout, active |-> res[1].active], env))
    /\ UNCHANGED <<configVars, fn, arg, chatVars, shellVars, queueVars>>

SpecActivateOnce == InitActivateOnce /\ [][ApplyActivateOnce]_vars

\* ---- _parse_region (main.py:249-264)
DIGITS == Chars("0123456789")

IsDigit(c) == \E d \in 1..Len(DIGITS) : DIGITS[d] = c

DigitValue(c) == (CHOOSE d \in 1..Len(DIGITS) : DIGITS[d] = c) - 1

RECURSIVE digits_value(_)
digits_value(s) ==
    IF s = <<>> THEN 0 ELSE 10 * digits_value(SubSeq(s, 1, Len(s) - 1)) + DigitValue(s[Len(s)])

\* int(s) for the texts of the model: blanks around, one optional sign, then
\* digits only; <<>> stands for the ValueError, <<n>> for the value
py_int(s) ==
    LET t == strip(s)
        signed == t # <<>> /\ t[1] \in {"-", "+"}
        body == IF signed THEN Tail(t) ELSE t
    IN IF body = <<>> \/ \E i \in 1..Len(body) : ~IsDigit(body[i]) THEN <<>>
       ELSE IF signed /\ t[1] = "-" THEN <<0 - digits_value(body)>>
       ELSE <<digits_value(body)>>

\* <<>> is None, <<left, top, w, h>> the region
_parse_region(spec) ==
    IF spec = <<>> THEN <<>>
    ELSE LET parts == split(spec, ",")
         IN IF Len(parts) # 4 THEN <<>>
            ELSE IF \E i \in 1..4 : py_int(parts[i]) = <<>> THEN <<>>
            ELSE LET w == py_int(parts[3])[1]
                     h == py_int(parts[4])[1]
                 IN IF w <= 0 \/ h <= 0 THEN <<>>
                    ELSE <<py_int(parts[1])[1], py_int(parts[2])[1], w, h>>

\* main.py:492-493 and 522-523, the click at the centre of a region
region_centre(region) == <<region[1] + region[3] \div 2, region[2] + region[4] \div 2>>

\* the values of IDE_INPUT_REGION / IDE_OUTPUT_REGION (main.py:48-49, stripped)
RegionOffsets == {"0", "-5", "x"}
RegionExtents == {"0", "5", "39", "40", " 41", "-40", "+40", "4 0", ""}
RegionSpecs ==
    {Chars(l \o "," \o t \o "," \o w \o "," \o h) :
        l \in RegionOffsets, t \in RegionOffsets, w \in RegionExtents, h \in RegionExtents}
    \cup {Chars(""), Chars("0,0,40"), Chars("0,0,40,40,40"), Chars("0,0,5,5,")}

InitRegion ==
    /\ DefaultConfig
    /\ ChatIdle
    /\ ShellIdle
    /\ QueueIdle
    /\ fn = "_parse_region"
    /\ arg \in RegionSpecs
    /\ res = <<>>

\* main.py:379-380: the region the bridge takes from the setting, and the
\* point it clicks when it focuses by region
ApplyRegion ==
    /\ fn = "_parse_region" /\ res = <<>>
    /\ LET region == _parse_region(arg)
       IN res' = <<[region |-> region,
                    click |-> IF region = <<>> THEN <<>> ELSE region_centre(region)]>>
    /\ UNCHANGED <<configVars, fn, arg, chatVars, shellVars, queueVars>>

SpecRegion == InitRegion /\ [][ApplyRegion]_vars

\* ================================================================== claims

\* C1: of the agents that issue the status-guarded claim update for one
\* pending job, exactly one gets a row back; every other one runs no handler
\* for the job and writes nothing to its row.
C1_ExactlyOneClaimWins ==
    \A j \in Jobs :
        /\ claimTried[j] # {} => Cardinality(claimedBy[j]) = 1
        /\ claimedBy[j] \subseteq claimTried[j]
        /\ \A w \in Workers \ claimedBy[j] :
              /\ w \notin ran[j]
              /\ (~rows[j].blank) => w \notin writers[j]
              /\ cur[w] # j

C1_Witness ==
    \E j \in Jobs :
        /\ Cardinality(claimTried[j]) >= 2
        /\ Cardinality(claimedBy[j]) = 1
        /\ ran[j] = claimedBy[j]
        /\ store[j].status \in Terminal

\* C2: every job an agent has claimed ends completed or error, whatever
\* handler is dispatched and whether it returns or raises: no handle_command
\* returns leaving the job it claimed in processing, and from some moment on
\* every claimed job is completed or error for good.
HandledBy(j) == {w \in Workers : cur[w] = j}

ChatReturned == chPc \in {"returned", "done"} /\ Len(chResult) = 1

C4_SendRetryCounts ==
    IDE_SEND_RETRY_COUNT >= 0 =>
        /\ extractions <= 1 + IDE_SEND_RETRY_COUNT
        /\ ChatReturned =>
              /\ firstSuccess = 0 =>
                    /\ extractions = 1 + IDE_SEND_RETRY_COUNT
                    /\ submits = 1 + IDE_SEND_RETRY_COUNT
              /\ firstSuccess > 0 =>
                    /\ extractions = firstSuccess
                    /\ submits = firstSuccess
                    /\ copies = firstSuccess
                    /\ MeetsCriterion(answer)
                    /\ chResult = <<answer>>

C4_Witness ==
    /\ chPc = "done" /\ chStatus = "completed"
    /\ IDE_SEND_RETRY_COUNT = 2
    /\ firstSuccess = 3 /\ extractions = 3 /\ submits = 3
    /\ chLog = <<"d", "o", "n", "e">>

\* C5 as stated: when every attempt ends without meeting the success
\* criterion, ide_chat_via_gui returns the placeholder and the job is
\* reported completed.
ChatExhausted == chPc = "done" /\ Len(chResult) = 1 /\ firstSuccess = 0

C5_ExhaustedYieldsPlaceholder ==
    ChatExhausted => (chStatus = "completed" /\ chLog = PLACEHOLDER)

\* C5 as amended: when every attempt ends without meeting the success
\* criterion, the job is reported completed and its log is the placeholder if
\* the last extraction is empty, and the last extraction itself otherwise
\* (a text shorter than 4 characters, or the placeholder).
C5_ExhaustedYieldsLastOrPlaceholder ==
    ChatExhausted =>
        /\ chStatus = "completed"
        /\ chLog = (IF answer = <<>> THEN PLACEHOLDER ELSE answer)
        /\ answer # <<>> => (answer = PLACEHOLDER \/ Len(strip(answer)) < 4)

C5_Witness ==
    /\ ChatExhausted
    /\ IDE_SEND_RETRY_COUNT >= 1
    /\ extractions = 1 + IDE_SEND_RETRY_COUNT
    /\ answer = <<>>
    /\ chLog = PLACEHOLDER

\* C6: for every marker list and text, _extract_last_ai_answer returns the part
\* of the (normalised, trimmed) text strictly after the right-most
\* case-insensitive occurrence of any marker, left-trimmed; the trimmed last
\* 120 lines when no marker occurs; the empty text for a blank text.
MatchesAt(text, m, i) ==
    /\ i + Len(m) <= Len(text)
    /\ \A k \in 1..Len(m) : LowerChar(text[i + k]) = LowerChar(m[k])

Occurrences(text) ==
    {o \in (0..(Len(text) - 1)) \X (1..Len(markers)) : MatchesAt(text, markers[o[2]], o[1])}

IsClaimedExtraction(full_text, out) ==
    LET text == strip(replace_crlf(full_text))
        occ == Occurrences(text)
    IN IF text = <<>> THEN out = <<>>
       ELSE IF occ = {}
            THEN out = strip(join(PySliceLast(split(text, "\n"), TAIL_LINES), "\n"))
            ELSE \E o \in occ :
                    /\ \A p \in occ : p[1] <= o[1]
                    /\ out = lstrip(PySliceFrom(text, o[1] + Len(markers[o[2]])))

C6_ExtractAfterRightmostMarker ==
    (fn = "_extract_last_ai_answer" /\ res # <<>>) => IsClaimedExtraction(arg, res[1])

\* C7: window scoring is monotonic: an active window scores strictly higher
\* than any non-active one whatever their sizes, a non-minimized window
\* strictly higher than a minimized one of the same activity, and the chosen
\* window is active whenever some candidate is.
C7_ScoringMonotonic ==
    (fn = "_choose_best_window" /\ res # <<>>) =>
        /\ \A i, j \in 1..Len(arg) :
              /\ (arg[i].isActive /\ ~arg[j].isActive)
                    => _score_window(arg[i]) > _score_window(arg[j])
              /\ (arg[i].isActive = arg[j].isActive
                    /\ ~arg[i].isMinimized /\ arg[j].isMinimized)
                    => _score_window(arg[i]) > _score_window(arg[j])
        /\ (\E i \in 1..Len(arg) : arg[i].isActive) => res[1].isActive

\* C8: for every rectangle and screen size, clamp returns a rectangle of width
\* and height at least 40 that lies fully inside the screen.
C8_ClampInsideScreen ==
    (fn = "clamp" /\ res # <<>>) =>
        /\ res[1].width >= 40 /\ res[1].height >= 40
        /\ 0 <= res[1].left /\ 0 <= res[1].top
        /\ res[1].left + res[1].width <= arg.screen[1]
        /\ res[1].top + res[1].height <= arg.screen[2]

\* C9 as stated: a shell job whose process exits with a non-zero code c ends
\* with status error and a log that contains c and the captured output; with
\* code 0 it ends completed with the captured output as its log, "(no output)"
\* when the captured output is blank.
Contains(s, sub) == \E i \in 0..(Len(s) - Len(sub)) : SubSeq(s, i + 1, i + Len(sub)) = sub

IsBlank(s) == strip(s) = <<>>

C9_ShellOutcome ==
    shPc = "done" =>
        IF exit_code # 0
        THEN /\ shStatus = "error"
             /\ Contains(shLog, str_exit_code(exit_code))
             /\ Contains(shLog, concat(buffer))
        ELSE /\ shStatus = "completed"
             /\ shLog = (IF IsBlank(concat(buffer)) THEN NO_OUTPUT ELSE concat(buffer))

\* C9 as amended: the log is that text passed through _truncate_log.  With a
\* non-zero code c the job ends with status error and its log is the
\* truncation of "Command failed with exit code c", an empty line and the
\* captured output ("(no output)" when blank), so it contains c and the whole
\* captured output whenever that message is at most LOG_MAX_CHARS long; with
\* code 0 it ends completed and its log is the truncation of the captured
\* output, of "(no output)" when that is blank.
Shown == IF IsBlank(concat(buffer)) THEN NO_OUTPUT ELSE concat(buffer)

ShellMessage == FAILED_PREFIX \o str_exit_code(exit_code) \o <<"\n", "\n">> \o Shown

C9_ShellOutcomeTruncated ==
    shPc = "done" =>
        IF exit_code # 0
        THEN /\ shStatus = "error"
             /\ shLog = _truncate_log(ShellMessage)
             /\ Len(ShellMessage) <= LOG_MAX_CHARS =>
                    /\ Contains(shLog, str_exit_code(exit_code))
                    /\ Contains(shLog, concat(buffer))
        ELSE /\ shStatus = "completed"
             /\ shLog = _truncate_log(Shown)
             /\ Len(Shown) <= LOG_MAX_CHARS => shLog = Shown

C9_Witness ==
    /\ shPc = "done" /\ exit_code = 7 /\ shStatus = "error"
    /\ buffer # <<>>
    /\ Len(ShellMessage) > LOG_MAX_CHARS /\ LOG_MAX_CHARS > 0
    /\ ~Contains(shLog, FAILED_PREFIX)

\* C10: for every log text L and budget LOG_MAX_CHARS, _truncate_log returns L
\* unchanged when len(L) <= LOG_MAX_CHARS and otherwise the truncation marker
\* followed by exactly the last LOG_MAX_CHARS characters of L.
LastChars(s, n) == SubSeq(s, Len(s) - n + 1, Len(s))

C10_TruncateKeepsBudgetTail ==
    (fn = "_truncate_log" /\ res # <<>>) =>
        res[1] = IF Len(arg) <= LOG_MAX_CHARS THEN arg
                 ELSE TRUNCATION_MARKER \o LastChars(arg, LOG_MAX_CHARS)

\* C11: run_shell_command is called only for a trimmed command text that
\* starts with "/sh " or equals whoami case-insensitively; a text outside the
\* recognized commands, a routing prefix before "/sh " included, goes to
\* ide_chat_via_gui as the question (routing prefix removed) and to no shell.
IsRecognized(t) ==
    \/ \E i \in 1..Len(LITERAL_COMMANDS) : t = Chars(LITERAL_COMMANDS[i])
    \/ startswith(t, Chars("/ide debug locate "))
    \/ startswith(t, Chars("/open "))
    \/ startswith(t, Chars("/sh "))
    \/ lower(t) = Chars("whoami")

FocusDone == fn = "focus" /\ res # <<>>

Configured(c) == c.hotkey \/ c.region \/ c.image \/ c.xy

FirstByPriority(c, imageOutcome) ==
    IF c.hotkey THEN "hotkey"
    ELSE IF c.region THEN "region"
    ELSE IF c.image /\ imageOutcome = "clicked" THEN "image"
    ELSE "point"

C12_OneFocusActionByPriority ==
    (FocusDone /\ Configured(focus_config(arg.target))) =>
        res[1].actions = <<FirstByPriority(focus_config(arg.target), arg.imageOutcome)>>

\* C12 as amended: a focus resolution that does not fail performs exactly one
\* focus action, the first in the order hotkey, region centre, matched image
\* template, fixed point; it fails, with no focus action, exactly when neither
\* hotkey nor region is configured and the template file is missing, or the
\* template gives no click and no fixed point is configured.
C12_OneFocusActionUnlessFailed ==
    FocusDone =>
        LET c == focus_config(arg.target)
            io == arg.imageOutcome
            fails == /\ ~c.hotkey /\ ~c.region
                     /\ (io = "missing" \/ (io # "clicked" /\ ~c.xy))
        IN /\ IsRaise(res[1].outcome) <=> fails
           /\ fails => res[1].actions = <<>>
           /\ ~fails => /\ res[1].actions = <<FirstByPriority(c, io)>>
                        /\ res[1].outcome = FirstByPriority(c, io)

C12_Witness ==
    /\ FocusDone
    /\ arg = [target |-> "transcript", imageOutcome |-> "timeout"]
    /\ IDE_FOCUS_TRANSCRIPT_HOTKEY = FALSE /\ output_region = FALSE /\ output_xy = TRUE
    /\ res[1].actions = <<"point">>

\* C13: a focus resolution fails with the "no way to focus" error if and only
\* if none of hotkey, region, image template and fixed point is configured
\* for the target.
C13_NoWayToFocusIffNoneConfigured ==
    FocusDone =>
        (res[1].outcome = "raise_none" <=> ~Configured(focus_config(arg.target)))

\* C14: no agent process ends because of a failure raised while it handles
\* one job, in the handler, in the claim update or in the status report,
\* during bootstrap_pending_commands as in poll_pending_commands_forever.
C14_AgentNeverTerminates == \A w \in Workers : phase[w] # "terminated"

\* C15 as stated: within one agent process at most one job it has claimed is
\* in status processing at any moment; the agent takes the next row or issues
\* the next query only when every job it has claimed is completed or error,
\* and a batch is replaced by a new query's rows only once it is used up.
ClaimedJobsOf(w) == {j \in Jobs : w \in claimedBy[j]}

BetweenJobs(w) == wpc[w] \in {"boot", "rows"}

BatchOnlyShrinks ==
    \A w \in Workers :
        batch[w] # <<>> => batch'[w] \in {batch[w], Tail(batch[w]), <<>>}

C16_BatchAscendingAndBounded ==
    \A w \in Workers :
        /\ \A i, k \in 1..Len(batch[w]) : i < k => batch[w][i] < batch[w][k]
        /\ Len(batch[w]) <= POLL_MAX_BATCH

\* C17: a process still running at COMMAND_TIMEOUT_SEC is killed by the
\* watchdog, run_shell_command then ends and the job ends in status error
\* with the output captured so far in its log; a process that has exited is
\* never killed.
Killed == proc = <<"exited", KILLED>>

C17_KilledAtTimeoutEndsInError ==
    /\ Killed ~> (/\ shPc = "done"
                  /\ shStatus = "error"
                  /\ shLog = _truncate_log(failure_message(KILLED, final_log(buffer))))
    /\ [][proc[1] = "exited" => proc' = proc]_vars

\* C18: an attempt whose copy timed out with the clipboard still holding the
\* sentinel counts as failed: the loop is not left on it while attempts
\* remain, and the sentinel is never the answer returned nor the log of the
\* completed job.
C18_SentinelNeverTheAnswer ==
    /\ (chPc = "finish" /\ answer = SENTINEL) =>
          attempt = total_tries(IDE_SEND_RETRY_COUNT)
    /\ chResult # <<SENTINEL>>
    /\ chStatus = "completed" => chLog # SENTINEL

\* C19: an image template that is not matched within the timeout in a focus
\* step never makes the job end in error.  With the template configured and
\* no hotkey or region before it, "No way to focus" is raised only after
\* such a timeout.
NoWayToFocus == chResult = <<"exc", "raise_none">>

InputFocusRaised == NoWayToFocus /\ (pastes = 0 \/ copies = submits)

TranscriptFocusRaised == NoWayToFocus /\ pastes > 0 /\ copies < submits

C19_UnmatchedImageNeverAnError ==
    chStatus = "error" =>
        /\ ~(IDE_INPUT_IMAGE /\ InputFocusRaised)
        /\ ~(IDE_OUTPUT_IMAGE /\ TranscriptFocusRaised)

\* C20: when no window title contains the configured substring the bridge
\* raises its "No window found" error at once: nothing is pasted, submitted
\* or copied, no attempt of the loop is made, and the job ends in status
\* error with that message as its log.
NoWindowFound == chResult = <<"exc", "no_window">>

C20_NoWindowFailsAtOnce ==
    NoWindowFound =>
        /\ pastes = 0 /\ submits = 0 /\ copies = 0 /\ extractions = 0 /\ attempt = 0
        /\ chPc \in {"raised", "done"}
        /\ chPc = "raised" => chStatus = "processing"
        /\ chPc = "done" =>
              chStatus = "error" /\ chLog = _truncate_log(exc_text("no_window"))

C20_Witness == NoWindowFound /\ chPc = "done" /\ chStatus = "error"

\* C21: when no focus method can be resolved for the input box or for the
\* transcript, the bridge ends with its "No way to focus" error before the
\* question has been pasted or submitted.
C21_NoFocusFailsBeforeSend == NoWayToFocus => (pastes = 0 /\ submits = 0)

\* C22 as stated: the lines of the file, as its "\n" delimit them, are kept
\* verbatim and in order except the key=value lines whose key is in the map,
\* which become key=new value in place; the keys of the map that no line of
\* the file sets are appended once each; a second application with the same
\* map changes nothing.  For every file and every map.
text_lines(s) ==
    IF s = <<>> THEN <<>>
    ELSE LET parts == split(s, "\n")
         IN IF parts[Len(parts)] = <<>> THEN SubSeq(parts, 1, Len(parts) - 1) ELSE parts

IsEntry(line) == strip(line) # <<>> /\ strip(line)[1] # "#" /\ HasChar(line, "=")

EntryFor(line, updates) == IsEntry(line) /\ has_key(updates, key_of(line))

RECURSIVE AbsentKeyLines(_, _)
AbsentKeyLines(updates, lines) ==
    IF updates = <<>> THEN <<>>
    ELSE (IF \E i \in 1..Len(lines) : IsEntry(lines[i]) /\ key_of(lines[i]) = Head(updates).k
          THEN <<>>
          ELSE <<Head(updates).k \o <<"=">> \o Head(updates).v>>)
         \o AbsentKeyLines(Tail(updates), lines)

Upserted(lines, updates) ==
    [i \in 1..Len(lines) |->
        IF EntryFor(lines[i], updates)
        THEN key_of(lines[i]) \o <<"=">> \o value_of(updates, key_of(lines[i]))
        ELSE lines[i]]
    \o AbsentKeyLines(updates, lines)

C22_UpsertInPlaceIdempotent ==
    (fn = "_upsert_env_vars" /\ res # <<>>) =>
        /\ text_lines(res[1]) = Upserted(text_lines(arg.content), arg.updates)
        /\ Len(res) = 2 => res[2] = res[1]

\* C22 as amended: the same for the lines str.splitlines delimits, and for
\* maps whose keys are non-empty, without blanks around them, without "=",
\* not starting with "#", and whose keys and values hold no line boundary.
\* With no line to write (an empty file and an empty map) the file written
\* is one empty line.
NoLineBreak(s) == \A i \in 1..Len(s) : ~IsLineBreak(s[i])

WellFormed(updates) ==
    \A i \in 1..Len(updates) :
        /\ updates[i].k # <<>> /\ strip(updates[i].k) = updates[i].k
        /\ ~HasChar(updates[i].k, "=") /\ updates[i].k[1] # "#"
        /\ NoLineBreak(updates[i].k) /\ NoLineBreak(updates[i].v)

C22_UpsertOfWellFormedMaps ==
    (fn = "_upsert_env_vars" /\ res # <<>> /\ WellFormed(arg.updates)) =>
        /\ IF splitlines(arg.content) = <<>> /\ arg.updates = <<>>
           THEN res[1] = <<"\n">>
           ELSE splitlines(res[1]) = Upserted(splitlines(arg.content), arg.updates)
        /\ res[1] = join(splitlines(res[1]), "\n") \o <<"\n">>
        /\ Len(res) = 2 => res[2] = res[1]

C22_Witness ==
    /\ fn = "_upsert_env_vars" /\ Len(res) = 2
    /\ Len(arg.updates) = 2
    /\ LET lines == splitlines(arg.content)
       IN /\ \E i \in 1..Len(lines) : EntryFor(lines[i], arg.updates)
          /\ \E i \in 1..Len(lines) : lines[i] # <<>> /\ ~IsEntry(lines[i])
          /\ Len(splitlines(res[1])) = Len(lines) + 1

\* C23 as stated: the loop stops after an attempt if and only if the text
\* extracted in that attempt meets the success criterion.
C23_LoopStopsOnlyOnSuccess ==
    /\ chPc = "finish" => MeetsCriterion(answer)
    /\ (chPc = "wait" /\ extractions > 0) => ~MeetsCriterion(answer)

\* C23 as amended: the loop is left after an attempt with attempts remaining exactly
\* when the text extracted in that attempt is non-empty, is not the
\* placeholder and has at least 4 characters after trimming; once an attempt
\* has met the criterion there is no further submit, wait or copy.
C23_LoopStopsIffSuccess ==
    /\ firstSuccess > 0 =>
          /\ chPc \in {"finish", "returned", "done"}
          /\ copies = firstSuccess /\ extractions = firstSuccess /\ submits = firstSuccess
          /\ attempt = firstSuccess - 1
          /\ MeetsCriterion(answer)
    /\ (chPc = "finish" /\ firstSuccess = 0) =>
          /\ attempt = total_tries(IDE_SEND_RETRY_COUNT)
          /\ extractions = total_tries(IDE_SEND_RETRY_COUNT)
          /\ ~MeetsCriterion(answer)
    /\ (chPc = "wait" /\ extractions > 0) => ~MeetsCriterion(answer)

C23_Witness ==
    /\ chPc = "done" /\ chStatus = "completed"
    /\ firstSuccess = 2 /\ copies = 2 /\ submits = 2
    /\ total_tries(IDE_SEND_RETRY_COUNT) = 3

\* C24: in one run of ide_chat_via_gui the question is copied to the
\* clipboard and pasted once, with the first submit; a retry re-focuses the
\* input and submits again without any paste.
C24_PastedOnceBeforeFirstSubmit ==
    /\ [](/\ pastes <= 1
          /\ submits >= 1 => pastes = 1
          /\ copies >= 1 => pastes = 1)
    /\ [][/\ pastes' > pastes => (submits = 0 /\ submits' = 1)
          /\ (submits >= 1 /\ submits' > submits) =>
                (pastes' = pastes /\ submits' = submits + 1)]_vars

C24_Witness == pastes = 1 /\ submits = 3 /\ copies = 3 /\ chPc = "done"

\* C25: in a copy step the sentinel is on the clipboard before the focus and
\* the copy keys; the step returns the first text it reads that is neither
\* the sentinel nor blank, or at the deadline whatever the clipboard holds
\* then; it never returns the text the clipboard held before the sentinel
\* unless that text was written again after the sentinel.
Unchanged(t) == t = CLIP_SENTINEL \/ IsBlankText(t)

C25_CopyStepReturnsFreshText ==
    /\ clip.pc \in {"armed", "polling", "raised", "returned"} => clip.before # "none"
    /\ clip.how = "change" =>
          /\ clip.out = <<clip.seen[Len(clip.seen)]>>
          /\ ~Unchanged(clip.out[1])
          /\ \A i \in 1..(Len(clip.seen) - 1) : Unchanged(clip.seen[i])
    /\ clip.how = "timeout" =>
          /\ clip.out = <<clip.board>>
          /\ clip.polls = 0
          /\ \A i \in 1..Len(clip.seen) : Unchanged(clip.seen[i])
    /\ (clip.out # <<>> /\ clip.out[1] = clip.before) => clip.again

C25_Witness ==
    /\ clip.how = "change" /\ clip.before = "question"
    /\ Len(clip.seen) = 2 /\ clip.seen[1] = CLIP_SENTINEL
    /\ clip.out = <<"transcript">>

\* C26: on every path of _activate_window_once a maximized window stays
\* maximized and receives no restore, a restore is issued only on a minimized
\* window, and a second activation of an already active window leaves it as
\* the first did.
C26_ActivationKeepsLayout ==
    (fn = "_activate_window_once" /\ res # <<>>) =>
        /\ arg.win.layout = "maximized" => res[1].layout = "maximized"
        /\ \A i \in 1..Len(res[1].restored) : IsMinimized(res[1].restored[i])
        /\ (Len(res) = 2 /\ arg.win.active /\ ~res[2].raised) =>
              (res[2].layout = res[1].layout /\ res[2].active = res[1].active)

\* C27: _activate_window_once is called at most 6 times, one call after
\* another while the calls raise, and never again once a call has returned;
\* the bridge raises its activation error only after the sixth call has
\* failed, and then nothing is pasted, submitted or copied and the job is
\* stored with status error.
ActivationRaised == chResult = <<"exc", "activate_failed">>

C27_ActivationAtMostSixTimes ==
    /\ [](/\ activations <= 6
          /\ activations # 0 => (chPc = "activate" \/ ActivationRaised)
          /\ ActivationRaised =>
                /\ activations = 6
                /\ pastes = 0 /\ submits = 0 /\ copies = 0 /\ extractions = 0 /\ attempt = 0
                /\ chPc \in {"raised", "done"}
                /\ chPc = "raised" => chStatus = "processing"
                /\ chPc = "done" =>
                      chStatus = "error" /\ chLog = _truncate_log(exc_text("activate_failed")))
    /\ [][/\ activations' # activations =>
                /\ chPc = "activate" /\ chResult = <<>>
                /\ \/ activations' = activations + 1
                   \/ activations' = 0 /\ chPc' = "send"
          /\ (chPc = "activate" /\ chPc' # "activate") => activations < 6
          /\ (chPc = "activate" /\ chPc' = "activate") => activations' < 6
          /\ chPc # "activate" => (chPc' # "activate" \/ chPc = "start")]_vars

C27_Witness == ActivationRaised /\ activations = 6 /\ chPc = "done" /\ chStatus = "error"

\* C28 as stated: with no hotkey and no region configured and a fixed point
\* configured, a template step that gives no click (template not configured,
\* template file missing, no match within the timeout) is followed by the
\* click at the fixed point, and the focus resolution succeeds.
PointIsLastResort ==
    /\ FocusDone
    /\ ~focus_config(arg.target).hotkey /\ ~focus_config(arg.target).region
    /\ focus_config(arg.target).xy

C28_PointClickedWhenNoImageClick ==
    (PointIsLastResort /\ arg.imageOutcome # "clicked") =>
        (res[1].outcome = "point" /\ res[1].actions = <<"point">>)

\* C28 as amended: under the same configuration the fixed point is clicked
\* and the resolution succeeds when the template is not configured or is not
\* matched within the timeout; when the template file is missing the
\* resolution raises and nothing is clicked.
C28_PointClickedUnlessTemplateMissing ==
    PointIsLastResort =>
        /\ arg.imageOutcome \in {"unset", "timeout"} =>
              (res[1].outcome = "point" /\ res[1].actions = <<"point">>)
        /\ arg.imageOutcome = "missing" =>
              (res[1].outcome = "raise_missing" /\ res[1].actions = <<>>)

C28_Witness ==
    /\ PointIsLastResort
    /\ arg = [target |-> "input", imageOutcome |-> "missing"]
    /\ res[1].outcome = "raise_missing"

\* C29 as stated: every partial flush of a running shell command stores the
\* job with status processing and with the output captured so far as its log;
\* a flush comes no sooner than LOG_FLUSH_INTERVAL_SEC after last_flush; the
\* report written once the command has ended carries the whole captured
\* output.
PartialFlush == flush'.count # flush.count

C29_FlushesShowOutputSoFar ==
    /\ [][PartialFlush =>
             /\ shPc = "reading" /\ shPc' = "reading"
             /\ shStatus' = "processing"
             /\ shLog' = concat(buffer')
             /\ flush.since >= LOG_FLUSH_INTERVAL_SEC /\ flush'.since = 0]_vars
    /\ [](shPc = "done" =>
             /\ shStatus \in {"completed", "error"}
             /\ Contains(shLog, concat(buffer)))

\* C29 as amended: the logs are those texts passed through _truncate_log.
\* A partial flush stores status processing and the truncation of the output
\* captured so far, no sooner than LOG_FLUSH_INTERVAL_SEC after last_flush;
\* the report written once the command has ended stores a terminal status and
\* the truncation of the whole captured output ("(no output)" when blank),
\* behind the exit code's line when the code is not 0.
C29_FlushesShowTruncatedOutput ==
    /\ [][PartialFlush =>
             /\ shPc = "reading" /\ shPc' = "reading"
             /\ shStatus' = "processing"
             /\ shLog' = _truncate_log(concat(buffer'))
             /\ flush.since >= LOG_FLUSH_INTERVAL_SEC /\ flush'.since = 0]_vars
    /\ [](shPc = "reading" => shStatus = "processing")
    /\ [](shPc = "done" =>
             /\ shStatus \in {"completed", "error"}
             /\ shLog = _truncate_log(IF exit_code # 0 THEN ShellMessage ELSE Shown)
             /\ Len(ShellMessage) <= LOG_MAX_CHARS => Contains(shLog, Shown))

\* two partial flushes, then the terminal report of a longer output
C29_Witness ==
    /\ shPc = "done" /\ flush.count = 2
    /\ Len(buffer) = 2
    /\ shLog = _truncate_log(IF exit_code # 0 THEN ShellMessage ELSE Shown)

\* C30: for each routing prefix P, in any letter case, and each text Q, the
\* command P followed by Q is handed to ide_chat_via_gui with Q as the
\* question, whichever the prefix.
RoutedBy(k) == startswith(lower(arg), Chars(ROUTING_PREFIXES[k]))

C30_RoutingPrefixOnlyStripped ==
    (fn = "dispatch" /\ res # <<>>) =>
        \A k \in 1..Len(ROUTING_PREFIXES) :
            RoutedBy(k) =>
                res[1] = Call("ide_chat_via_gui", PySliceFrom(arg, Len(ROUTING_PREFIXES[k])))

\* C31: every region the GUI bridge uses as a click or drag-selection target
\* is at least 40 wide and 40 high; a configured region smaller than that is
\* never used.
RegionUsed == fn = "_parse_region" /\ res # <<>> /\ res[1].region # <<>>

C31_UsedRegionAtLeastMinSize ==
    RegionUsed => (res[1].region[3] >= 40 /\ res[1].region[4] >= 40)

\* C32: a pending job whose command text is blank is set to error with the
\* log "Empty command_text"; no agent claims it and no handler runs for it;
\* the write has no status guard, and with several agents handling the row
\* the job is still in error, with that log, once they have handled it.
EmptyError == [status |-> "error", response_log |-> "Empty command_text"]

Handled(j) == \A w \in Workers : wpc[w] # "boot" /\ \A i \in 1..Len(batch[w]) : batch[w][i] # j

C32_BlankJobEndsInErrorUnclaimed ==
    /\ [](\A j \in Jobs : rows[j].blank =>
             /\ claimedBy[j] = {} /\ claimTried[j] = {} /\ ran[j] = {}
             /\ store[j] \in {[status |-> "pending", response_log |-> ""], EmptyError}
             /\ writers[j] # {} => store[j] = EmptyError
             /\ Handled(j) => store[j] = EmptyError)
    /\ [][\A j \in Jobs : store[j] = EmptyError => store'[j] = EmptyError]_vars

\* both agents have written the error on the same blank row
C32_Witness ==
    \E j \in Jobs : rows[j].blank /\ writers[j] = Workers /\ store[j] = EmptyError /\ Handled(j)

\* C33: an agent changes a job's row only along pending -> processing,
\* processing -> processing, processing -> completed, processing -> error and
\* pending -> error; once the status is completed or error no step of any
\* agent changes the row again.
StatusSteps ==
    {<<"pending", "processing">>, <<"processing", "processing">>,
     <<"processing", "completed">>, <<"processing", "error">>, <<"pending", "error">>}

C33_StatusLifecycle ==
    [][\A j \in Jobs :
          /\ store'[j] # store[j] => <<store[j].status, store'[j].status>> \in StatusSteps
          /\ store[j].status \in Terminal => store'[j] = store[j]]_vars

\* a terminal row is still in the batch an agent took before, a claimed job
\* has been flushed and another agent's job has ended
C33_Witness ==
    \E w \in Workers, j \in Jobs :
        /\ store[j].status \in Terminal /\ ~rows[j].blank
        /\ \E i \in 1..Len(batch[w]) : batch[w][i] = j
        /\ \E k \in Jobs : store[k] = [status |-> "processing", response_log |-> "partial"]

\* C34: handle_command writes nothing to the job store and runs no handler
\* for a row without id or owner, for a row whose owner is not the configured
\* AGENT_USER_ID, and for a row whose status is not pending.
Skipped(j) ==
    \/ ~rows[j].id \/ rows[j].user_id = ""
    \/ (AGENT_USER_ID # "" /\ rows[j].user_id # AGENT_USER_ID)
    \/ rows[j].status # "pending"

C34_SkippedRowUntouched ==
    /\ [](\A j \in Jobs : Skipped(j) =>
             writers[j] = {} /\ claimTried[j] = {} /\ ran[j] = {} /\ reports[j] = <<>>)
    /\ [][\A j \in Jobs : Skipped(j) => store'[j] = store[j]]_vars

\* both agents have passed a row of another owner that is pending in the
\* store, and the first has gone on to the next row
C34_Witness ==
    /\ AGENT_USER_ID = "u1" /\ rows[1].user_id = "u2" /\ rows[1].id /\ rows[1].status = "pending"
    /\ store[1].status = "pending"
    /\ batch = [w \in Workers |-> <<>>]
    /\ store[2].status \in Terminal

\* C35: with the poll loop scheduled fairly and a working job store, every
\* pending job that has an id and an owner this agent accepts is eventually
\* claimed and brought to completed or error, whatever older pending rows
\* without owner the table holds.
Accepted(j) ==
    /\ rows[j].id /\ rows[j].user_id # ""
    /\ AGENT_USER_ID = "" \/ rows[j].user_id = AGENT_USER_ID

C35_AcceptedJobEventuallyHandled ==
    \A j \in Jobs : (j <= arrived /\ Accepted(j)) ~> (store[j].status \in Terminal)

\* C36: whenever the transcript holds a marker, the text returned by
\* _extract_last_ai_answer holds no occurrence of a configured marker, in any
\* letter case; and when two markers, one a prefix of the other, occur at the
\* same right-most position, the returned text is what follows the longer
\* one, so it does not start with the rest of the longer marker, whichever of
\* the two comes first in the list.
RightmostTies(text) ==
    {t \in Occurrences(text) \X Occurrences(text) :
        /\ t[1][1] = t[2][1]
        /\ Len(markers[t[1][2]]) < Len(markers[t[2][2]])
        /\ \A c \in Occurrences(text) :
              /\ c[1] <= t[2][1]
              /\ (c[1] = t[2][1]) => Len(markers[c[2]]) <= Len(markers[t[2][2]])}

C36_NoMarkerLeftInAnswer ==
    (fn = "_extract_last_ai_answer" /\ res # <<>>) =>
        LET text == strip(replace_crlf(arg))
        IN Occurrences(text) # {} =>
              /\ Occurrences(res[1]) = {}
              /\ \A t \in RightmostTies(text) :
                    res[1] = strip(PySliceFrom(text, t[2][1] + Len(markers[t[2][2]])))

\* C37: in one run of ide_chat_via_gui the Enter key is pressed at most
\* max(1, 1 + IDE_SEND_RETRY_COUNT) times, for a zero or negative retry count
\* as well; a run that has sent the question has pressed it at least once;
\* and when the run returns, the attempts made, the copy steps and the Enter
\* keystrokes are equal in number, so the last attempt is followed by no
\* re-submit.
QuestionSent == chPc \in {"wait", "finish", "returned"} \/ ChatReturned

\* iterations of the loop of main.py:570 begun: the loop variable is the index
\* of the iteration that broke out, or total_tries when the loop ran out
attempts_made == IF is_success(answer) THEN attempt + 1 ELSE attempt

C37_SubmitsWithinTries ==
    /\ submits <= Max(1, 1 + IDE_SEND_RETRY_COUNT)
    /\ QuestionSent => submits >= 1
    /\ ChatReturned =>
          /\ attempts_made <= Max(1, 1 + IDE_SEND_RETRY_COUNT)
          /\ copies = attempts_made
          /\ submits = attempts_made

C37_Witness ==
    /\ chPc = "done" /\ chStatus = "completed"
    /\ IDE_SEND_RETRY_COUNT = 0 - 1
    /\ firstSuccess = 0 /\ attempt = 1
    /\ submits = 1 /\ copies = 1

====
